---- MODULE Spec2Model ----
(***************************************************************************)
(* The view tree of plato: event dispatch (view::handle_event), the        *)
(* render pass (view::render, view::process_render_queue) and the          *)
(* emulator's main loop that drives both.                                   *)
(***************************************************************************)
EXTENDS Integers, Sequences, FiniteSets, TLC

VARIABLES
  views,     \* the view tree: Id -> [children, rect, is_background, might_skip, kind, partial]
  chan,      \* the main event channel (tx / rx of the emulator)
  bus,       \* the root bus of the emulator's main loop
  rq,        \* the RenderQueue: (mode, wait) -> sequence of (Option<Id>, Rectangle)
  updating,  \* the in-flight updates: token -> Rectangle
  pc,        \* position of the main loop
  pass,      \* what the last dispatch pass did (observation)
  frame,     \* what the last render pass did (observation)
  act,       \* the last step taken (observation)
  added,     \* how many requests the environment of the render model has queued
  ID_FEEDER, \* the value of the AtomicU64 of the id feeder
  callers,   \* each thread's position in a call of IdFeeder::next
  issued,    \* the calls of IdFeeder::next: invoked, fetched, returned (observation)
  history,   \* the views the emulator has left for another, oldest first
  context,   \* the Context of the application: settings.wifi
  threads    \* the spawned threads that sleep before their one send: event -> how many

vars == <<views, chan, bus, rq, updating, pc, pass, frame, act, added,
          ID_FEEDER, callers, issued, history, context, threads>>

\* Worker threads send while the channel and the root bus hold fewer than MaxChan events.
MaxChan == 2
\* RenderQueue.add is called at most MaxQueue times in a run of the render model;
\* worker threads send while fewer than MaxQueue requests wait in the render queue.
MaxQueue == 2
\* The display driver hands out the tokens 1..MaxToken.
MaxToken == 2
\* The leaves of the three-leaf scenario ask for at most MaxAsks repaints in a run.
MaxAsks == 3
\* IdFeeder::next is called at most MaxIds times in a run of the feeder model.
MaxIds == 4

\* The first Id the feeder hands out; the model numbers the views from it.
RootId == 1

\* No thread is inside IdFeeder::next.
\* A Context with the wifi off, and no thread asleep.
NoContext == [wifi |-> FALSE]
NoThreads == [e \in {"Close", "NetUp"} |-> 0]
NoCallers == [t \in {"main", "worker"} |-> [pc |-> "idle", id |-> 0]]

----------------------------------------------------------------------------
\* Rectangles (crate::geom)

rect(x0, y0, x1, y1) == [min |-> [x |-> x0, y |-> y0], max |-> [x |-> x1, y |-> y1]]

Min(a, b) == IF a <= b THEN a ELSE b
Max(a, b) == IF a >= b THEN a ELSE b

\* Rectangle::overlaps: the two rectangles share area.
overlaps(a, b) ==
  /\ a.min.x < b.max.x /\ b.min.x < a.max.x
  /\ a.min.y < b.max.y /\ b.min.y < a.max.y

\* Rectangle::contains: b lies within a.
contains(a, b) ==
  /\ a.min.x <= b.min.x /\ b.max.x <= a.max.x
  /\ a.min.y <= b.min.y /\ b.max.y <= a.max.y

\* Rectangle::touches: edge-adjacent with no gap.
touches(a, b) ==
  \/ /\ (a.max.x = b.min.x \/ b.max.x = a.min.x)
     /\ a.min.y < b.max.y /\ b.min.y < a.max.y
  \/ /\ (a.max.y = b.min.y \/ b.max.y = a.min.y)
     /\ a.min.x < b.max.x /\ b.min.x < a.max.x

\* Rectangle::absorb: the bounding union of the two.
absorb(a, b) ==
  rect(Min(a.min.x, b.min.x), Min(a.min.y, b.min.y),
       Max(a.max.x, b.max.x), Max(a.max.y, b.max.y))

\* Rectangle::intersection, an Option: <<>> is None, <<r>> is Some(r).
intersection(a, b) ==
  IF overlaps(a, b)
  THEN << rect(Max(a.min.x, b.min.x), Max(a.min.y, b.min.y),
               Min(a.max.x, b.max.x), Min(a.max.y, b.max.y)) >>
  ELSE <<>>

----------------------------------------------------------------------------
\* Events, RenderData and the RenderQueue

\* The events of the model: two that enter from outside (a tap gesture, the
\* clock tick) and two that views send to their parents.
EventNames == {"Tap", "ClockTick", "Page", "ToggleNear"}
RootEvents == {"Tap", "ClockTick"}

UpdateModes == {"Gui", "Fast"}

\* An event as handle_event sees it. src, n and ph tell the pushes of one pass
\* apart: the view that pushed it, the rank of the push in the pass, and
\* whether the pusher was handling the original event ("orig") or an event
\* from its child bus ("filter"). The event the pass starts with has n = 0.
Evt(name, src, n, ph) == [name |-> name, src |-> src, n |-> n, ph |-> ph]
Original(name) == Evt(name, 0, 0, "root")
IsOriginal(e) == e.n = 0

RenderData_new(id, r, mode) == [id |-> <<id>>, rect |-> r, mode |-> mode, wait |-> TRUE]
RenderData_no_wait(id, r, mode) == [id |-> <<id>>, rect |-> r, mode |-> mode, wait |-> FALSE]
RenderData_expose(r, mode) == [id |-> <<>>, rect |-> r, mode |-> mode, wait |-> TRUE]

EmptyMap == [k \in {} |-> <<>>]
RenderQueue_new == EmptyMap

\* The pair put in front of the pairs of its group.
AddInFront(q, data) ==
  LET key == <<data.mode, data.wait>>
      pair == <<data.id, data.rect>>
  IN IF key \in DOMAIN q
     THEN [q EXCEPT ![key] = <<pair>> \o @]
     ELSE [k \in DOMAIN q \cup {key} |-> IF k = key THEN <<pair>> ELSE q[k]]

\* RenderQueue::add
RenderQueue_add(q, data) ==
  LET key == <<data.mode, data.wait>>
      pair == <<data.id, data.rect>>
  IN IF key \in DOMAIN q
     THEN [q EXCEPT ![key] = Append(@, pair)]
     ELSE [k \in DOMAIN q \cup {key} |-> IF k = key THEN <<pair>> ELSE q[k]]

----------------------------------------------------------------------------
\* Views

len(v) == Len(views[v].children)
childFromTop(v, i) == views[v].children[Len(views[v].children) + 1 - i]
child(v, i) == views[v].children[i]
might_skip(v, evt) == evt.name \in views[v].might_skip

\* What a view's own handler does with an event: whether it accepts it, the
\* events it pushes on the bus it was given, whether it asks to be repainted.
\* The repaint it asks for is one of its own rectangle, in the Gui mode unless
\* the handler says otherwise.
Resp(ret, pushes, paint) == [ret |-> ret, bus |-> pushes, rq |-> paint, mode |-> "Gui"]
Ignore == Resp(FALSE, <<>>, FALSE)

\* The kinds of handler a view of the model may have.
Kinds == {"Ignore", "Capture", "Emit", "EmitPass", "Consume", "Relay"}

Respond(kind, name) ==
  CASE kind = "Capture" ->
         (IF name \in RootEvents THEN Resp(TRUE, <<>>, TRUE) ELSE Ignore)
    [] kind = "Emit" ->
         (IF name = "Tap" THEN Resp(TRUE, <<"Page">>, FALSE)
          ELSE IF name = "ClockTick" THEN Resp(TRUE, <<>>, TRUE)
          ELSE Ignore)
    [] kind = "EmitPass" ->
         (IF name = "Tap" THEN Resp(FALSE, <<"Page", "ToggleNear">>, TRUE)
          ELSE IF name = "ClockTick" THEN Resp(FALSE, <<"ToggleNear">>, FALSE)
          ELSE Ignore)
    [] kind = "Consume" ->
         (IF name = "Page" THEN Resp(TRUE, <<"ToggleNear">>, TRUE) ELSE Ignore)
    [] kind = "Relay" ->
         (IF name = "Page" THEN Resp(FALSE, <<"ToggleNear">>, FALSE)
          ELSE IF name = "ToggleNear" THEN Resp(TRUE, <<>>, FALSE)
          ELSE IF name = "Tap" THEN Resp(FALSE, <<"Page">>, FALSE)
          ELSE Ignore)
    [] OTHER -> Ignore

\* The device and gesture events that carry a position: the status of the
\* finger, or "Tap" for the gesture, and the point. The points lie well inside
\* or well outside the rectangles of the trees they are sent to.
Point(x, y) == [x |-> x, y |-> y]
Touches ==
  [name \in {"Down1", "Down2", "Down3", "Down4", "Up1", "Up2", "Up3", "Up4",
             "Motion2", "TapAt1", "TapAt4"} |->
     [status |-> CASE name \in {"Down1", "Down2", "Down3", "Down4"} -> "Down"
                   [] name \in {"Up1", "Up2", "Up3", "Up4"} -> "Up"
                   [] name = "Motion2" -> "Motion"
                   [] OTHER -> "Tap",
      position |-> CASE name \in {"Down1", "Up1", "TapAt1"} -> Point(5, 5)
                     [] name \in {"Down2", "Up2", "Motion2"} -> Point(15, 15)
                     [] name \in {"Down3", "Up3"} -> Point(25, 25)
                     [] OTHER -> Point(35, 35)]]
TouchEvents == DOMAIN Touches
IsFinger(name) == name \in TouchEvents /\ Touches[name].status # "Tap"
IsTap(name) == name \in TouchEvents /\ Touches[name].status = "Tap"

\* Rectangle::includes: the point lies in the rectangle.
includes(r, p) ==
  /\ r.min.x <= p.x /\ p.x < r.max.x
  /\ r.min.y <= p.y /\ p.y < r.max.y

\* What the button's handler leaves in self.active, beside what it answers.
Button(r, active) == [ret |-> r.ret, bus |-> r.bus, rq |-> r.rq, mode |-> r.mode,
                      active |-> active]

\* The button released only by an Up inside its rectangle.
ReleasedInside(v, name) ==
  IF IsFinger(name) /\ includes(views[v].rect, Touches[name].position)
  THEN IF Touches[name].status = "Down"
       THEN Button([Resp(TRUE, <<>>, TRUE) EXCEPT !.mode = "Fast"], TRUE)
       ELSE IF Touches[name].status = "Up" /\ views[v].active
            THEN Button(Resp(TRUE, <<>>, TRUE), FALSE)
            ELSE Button(Ignore, views[v].active)
  ELSE Button(Ignore, views[v].active)

\* RoundedButton::handle_event
RoundedButton_handle_event(v, name) ==
  IF IsFinger(name)
  THEN IF Touches[name].status = "Down" /\ includes(views[v].rect, Touches[name].position)
       THEN Button([Resp(TRUE, <<>>, TRUE) EXCEPT !.mode = "Fast"], TRUE)
       ELSE IF Touches[name].status = "Up" /\ views[v].active
            THEN Button(Resp(TRUE, <<>>, TRUE), FALSE)
            ELSE Button(Ignore, views[v].active)
  ELSE IF IsTap(name) /\ includes(views[v].rect, Touches[name].position)
       THEN Button(Resp(TRUE, <<views[v].event>>, FALSE), views[v].active)
       ELSE Button(Ignore, views[v].active)

\* Notification::handle_event: a tap or a finger inside its rectangle stops there.
Notification_handle_event(v, name) ==
  IF name \in TouchEvents /\ includes(views[v].rect, Touches[name].position)
  THEN Resp(TRUE, <<>>, FALSE)
  ELSE Ignore

\* view.handle_event(evt, ..) of the view's own type
OwnHandler(v, name) ==
  CASE views[v].kind = "RoundedButton" -> RoundedButton_handle_event(v, name)
    [] views[v].kind = "Notification" -> Notification_handle_event(v, name)
    [] OTHER -> Respond(views[v].kind, name)

----------------------------------------------------------------------------
\* Event dispatch (view::handle_event)

\* One line of the record of a pass. k is "c" when handle_event is entered for
\* view v, "h" when the own handler of v has been invoked with e and returned
\* ret after pushing out, and "r" when handle_event returns ret for v, having
\* appended out to its parent bus; cb is then the child bus as it was before
\* v filtered it. nrq counts the requests added to the render queue so far.
Entry(k, v, e, ret, out, cb, st) ==
  [k |-> k, v |-> v, e |-> e, ret |-> ret, out |-> out, cb |-> cb, nrq |-> Len(st.adds)]

Logged(st, entry) == [st EXCEPT !.log = Append(@, entry)]

\* View::handle_event of view v: the handler of the view itself.
view_handle_event(v, evt, to_bus, st) ==
  LET ph == IF IsOriginal(evt) THEN "orig" ELSE "filter"
      Data(r) == RenderData_new(v, views[v].rect, r.mode)
      Handled(r, out, st2) ==
        [captured |-> r.ret, bus |-> to_bus \o out,
         st |-> Logged(st2, Entry("h", v, evt, r.ret, out, <<>>, st2))]
      Answered(r) ==
        Handled(r, [i \in 1..Len(r.bus) |-> Evt(r.bus[i], v, st.n + i, ph)],
                [(IF r.rq
                  THEN [st EXCEPT !.rq = RenderQueue_add(@, Data(r)),
                                  !.adds = Append(@, Data(r))]
                  ELSE st) EXCEPT !.n = @ + Len(r.bus)])
  IN Answered(OwnHandler(v, evt.name))

\* if view.len() > 0
HasChildren(v) == len(v) > 0

NeverSkip(v, evt) == FALSE
\* if view.might_skip(evt) { return captured; }
ShouldSkip(v, evt) == might_skip(v, evt)

ChildOrderAscending(n) == [i \in 1..n |-> i]
\* for i in (0..view.len()).rev()
ChildOrder(n) == [i \in 1..n |-> n + 1 - i]

NeverBreak(captured) == FALSE
\* if handle_event(child) { captured = true; break; }
BreakAfter(captured) == captured

RetainAll(handled) == TRUE
\* child_bus.retain(|child_evt| !view.handle_event(child_evt, .., &mut temp_bus, ..))
Retained(handled) == ~handled

AppendTempFirst(parent_bus, child_bus, temp_bus) == parent_bus \o temp_bus \o child_bus
\* parent_bus.append(&mut child_bus); parent_bus.append(&mut temp_bus);
AppendBuses(parent_bus, child_bus, temp_bus) == parent_bus \o child_bus \o temp_bus

OwnHandlerAlways(captured) == TRUE
\* captured || view.handle_event(evt, ..): the handler runs only if no child captured
OwnHandlerRuns(captured) == ~captured

OnlyCaptured(captured, own) == captured
\* captured || view.handle_event(evt, ..)
Outcome(captured, own) == captured \/ own

RECURSIVE handle_event(_, _, _, _)
RECURSIVE DispatchChildren(_, _, _, _, _)
RECURSIVE FilterChildBus(_, _, _, _, _)

\* The loop over the children, order holding the indices still to visit.
DispatchChildren(v, evt, order, child_bus, st) ==
  IF order = <<>>
  THEN [captured |-> FALSE, bus |-> child_bus, st |-> st]
  ELSE LET Others(r, rest) == [rest EXCEPT !.captured = r.captured \/ rest.captured]
           Child(r) ==
             IF BreakAfter(r.captured)
             THEN r
             ELSE Others(r, DispatchChildren(v, evt, Tail(order), r.bus, r.st))
       IN Child(handle_event(child(v, Head(order)), evt, child_bus, st))

\* child_bus.retain(..): every event of the child bus goes through the own
\* handler of v, which pushes on temp_bus; kept collects what survives.
FilterChildBus(v, todo, kept, temp_bus, st) ==
  IF todo = <<>>
  THEN [child_bus |-> kept, temp_bus |-> temp_bus, st |-> st]
  ELSE LET Filtered(h) ==
             FilterChildBus(v, Tail(todo),
                            IF Retained(h.captured) THEN Append(kept, Head(todo)) ELSE kept,
                            h.bus, h.st)
       IN Filtered(view_handle_event(v, Head(todo), temp_bus, st))

Returned(v, evt, ret, before, after, cb, st) ==
  [captured |-> ret, bus |-> after,
   st |-> Logged(st, Entry("r", v, evt, ret, SubSeq(after, Len(before) + 1, Len(after)), cb, st))]

handle_event(v, evt, parent_bus, st) ==
  LET Own(kids, own) ==
        Returned(v, evt, Outcome(kids.captured, own.captured),
                 parent_bus, own.bus, kids.bus, own.st)
      Appended(kids, filt, pbus) ==
        IF OwnHandlerRuns(kids.captured)
        THEN Own(kids, view_handle_event(v, evt, pbus, filt.st))
        ELSE Returned(v, evt, Outcome(kids.captured, FALSE),
                      parent_bus, pbus, kids.bus, filt.st)
      Retain(kids, filt) ==
        Appended(kids, filt, AppendBuses(parent_bus, filt.child_bus, filt.temp_bus))
      Children(kids) == Retain(kids, FilterChildBus(v, kids.bus, <<>>, <<>>, kids.st))
      Alone(own) == Returned(v, evt, own.captured, parent_bus, own.bus, <<>>, own.st)
      Entered(st0) ==
        IF HasChildren(v)
        THEN IF ShouldSkip(v, evt)
             THEN Returned(v, evt, FALSE, parent_bus, parent_bus, <<>>, st0)
             ELSE Children(DispatchChildren(v, evt, ChildOrder(len(v)), <<>>, st0))
        ELSE Alone(view_handle_event(v, evt, parent_bus, st0))
  IN Entered(Logged(st, Entry("c", v, evt, FALSE, <<>>, <<>>, st)))

\* A pass from the root, as the main loop starts it: handle_event(view, &evt,
\* &tx, &mut bus, &mut rq, &mut context).
DispatchPass(name, from, bus0, rq0) ==
  LET Passed(r) ==
        [evt |-> name, from |-> from, captured |-> r.captured, bus |-> r.bus, rq |-> r.st.rq,
         out |-> SubSeq(r.bus, Len(bus0) + 1, Len(r.bus)),
         adds |-> r.st.adds, log |-> r.st.log]
  IN Passed(handle_event(RootId, Original(name), bus0,
                         [log |-> <<>>, n |-> 0, rq |-> rq0, adds |-> <<>>]))

\* The tree after the pass: self.active of every button whose handler ran. A
\* button has no children, so its handler runs at most once in a pass, with
\* the event the pass started with.
AfterPass(p) ==
  [v \in DOMAIN views |->
     IF /\ views[v].kind = "RoundedButton"
        /\ \E i \in 1..Len(p.log) : p.log[i].k = "h" /\ p.log[i].v = v
     THEN [views[v] EXCEPT !.active = RoundedButton_handle_event(v, p.evt).active]
     ELSE views[v]]

NoPass == [evt |-> "", from |-> "", captured |-> FALSE, bus |-> <<>>, rq |-> EmptyMap,
           out |-> <<>>, adds |-> <<>>, log |-> <<>>]
NoFrame == <<>>

----------------------------------------------------------------------------
\* The render pass (view::render, view::process_render_queue)

Last(q) == q[Len(q)]
Front(q) == SubSeq(q, 1, Len(q) - 1)
Reverse(q) == [i \in 1..Len(q) |-> q[Len(q) + 1 - i]]

RECURSIVE Flatten(_)
Flatten(qs) == IF qs = <<>> THEN <<>> ELSE Head(qs) \o Flatten(Tail(qs))

\* View::is_background
is_background(v) == views[v].is_background

\* A hook that answers with the rectangle it was given, whatever the view.
GivenRect(v, r) == r

\* View::render_rect: the view's own rectangle by default; a view that can
\* repaint a part of itself answers with the rectangle it was given.
render_rect(v, r) == IF views[v].partial THEN r ELSE views[v].rect

\* One line of the record of a render pass: a view visited, a wait on a
\* token, a paint, a merge of a produced rectangle, an update call. rects is
\* the list of running rectangles and upd the tokens in flight after the step,
\* inflight the rectangle of each; a visit notes the background rectangles it
\* finds and an update call the mode it passes.
Step(k, v, r, rr, tok, ok, rects, upd) ==
  [k |-> k, v |-> v, rect |-> r, rr |-> rr, tok |-> tok, ok |-> ok,
   rects |-> rects, upd |-> DOMAIN upd, inflight |-> upd, bgs |-> <<>>, mode |-> ""]

Noted(cx, step) == [cx EXCEPT !.log = Append(@, step)]

\* ids.get(&view.id()).cloned().into_iter().flatten()
Queued(ids, v) == IF v \in DOMAIN ids THEN ids[v] ELSE <<>>

\* iter().filter_map(|r| r.intersection(view.rect()))
Intersections(rs, r) == Flatten([i \in 1..Len(rs) |-> intersection(rs[i], r)])

\* The rectangles a directly rendered view is painted for, in the order of the chain.
Candidates(v, ids, rects, bgs) ==
  Queued(ids, v) \o Intersections(rects, views[v].rect) \o Intersections(bgs, views[v].rect)

\* fb.wait(tok): fails for the tokens the driver fails on in this pass.
fb_wait(tok, cx) == tok \notin cx.fails

\* The tokens updating.retain(..) waits on for render_rect rr, in the order it meets them.
RECURSIVE SetToSeq(_)
SetToSeq(S) == IF S = {} THEN <<>> ELSE LET x == CHOOSE x \in S : \A y \in S : x <= y IN <<x>> \o SetToSeq(S \ {x})
WaitedNone(rr, upd) == <<>>
Waited(rr, upd) == SetToSeq({tok \in DOMAIN upd : overlaps(rr, upd[tok])})

DroppedAfterWait(ok) == FALSE
\* fb.wait(*tok).is_err(): the closure of retain keeps the entry whose wait failed
KeptAfterWait(ok) == ~ok

NoRetain(v, rr, cx) == cx
\* updating.retain(|tok, urect| !render_rect.overlaps(urect) || fb.wait(*tok).is_err())
RetainUpdating(v, rr, cx) ==
  LET toks == Waited(rr, cx.updating)
      kept == {tok \in DOMAIN cx.updating :
                 ~overlaps(rr, cx.updating[tok]) \/ KeptAfterWait(fb_wait(tok, cx))}
      upd == [tok \in kept |-> cx.updating[tok]]
  IN [cx EXCEPT !.updating = upd,
                !.log = @ \o [i \in 1..Len(toks) |->
                                Step("wait", v, cx.updating[toks[i]], rr, toks[i],
                                     fb_wait(toks[i], cx), <<>>, upd)]]

AlwaysWait(wait) == TRUE
\* if wait { updating.retain(..) }
ShouldWait(wait) == wait

\* The loop over the candidates of a directly rendered view.
RECURSIVE PaintLoop(_, _, _, _, _, _)
PaintLoop(v, wait, cands, rects, render_rects, cx) ==
  IF cands = <<>>
  THEN [render_rects |-> render_rects, cx |-> cx]
  ELSE LET r == Head(cands)
           rr == render_rect(v, r)
           \* if *view.rect() == render_rect { break; }
           AfterPaint(cx2) ==
             IF views[v].rect = rr
             THEN [render_rects |-> Append(render_rects, rr), cx |-> cx2]
             ELSE PaintLoop(v, wait, Tail(cands), rects, Append(render_rects, rr), cx2)
           \* view.render(fb, rect, fonts)
           AfterWaits(cx1) ==
             AfterPaint(Noted(cx1, Step("paint", v, r, rr, 0, TRUE, rects, cx1.updating)))
       IN AfterWaits(IF ShouldWait(wait) THEN RetainUpdating(v, rr, cx) ELSE cx)

NoCollapse(rects) == rects
\* while i > 1 && rects[i - 1].touches(&rects[i - 2]) { pop, absorb into the new last }
RECURSIVE CollapseFrom(_)
CollapseFrom(rects) ==
  IF Len(rects) > 1 /\ touches(Last(rects), rects[Len(rects) - 1])
  THEN CollapseFrom(Append(SubSeq(rects, 1, Len(rects) - 2),
                           absorb(rects[Len(rects) - 1], Last(rects))))
  ELSE rects
Collapse(rects) == CollapseFrom(rects)

NeverCovered(rects, r) == FALSE
AlwaysCovered(rects, r) == TRUE
\* while i > 0 && !rects[i - 1].contains(&rect) { i -= 1; }  ...  i > 0 at the end
Covered(rects, r) == \E i \in 1..Len(rects) : contains(rects[i], r)

JustPush(rects, r) == Append(rects, r)
\* The merge of one produced rectangle into the running rectangles.
Merge(rects, r) ==
  IF rects = <<>>
  THEN <<r>>
  ELSE IF touches(r, Last(rects))
       THEN Collapse(Append(Front(rects), absorb(Last(rects), r)))
       ELSE IF Covered(rects, r) THEN rects ELSE Append(rects, r)

\* for rect in render_rects.into_iter() { .. }
RECURSIVE MergeAll(_, _, _, _)
MergeAll(v, rects, render_rects, cx) ==
  IF render_rects = <<>>
  THEN [rects |-> rects, cx |-> cx]
  ELSE LET merged == Merge(rects, Head(render_rects))
       IN MergeAll(v, merged, Tail(render_rects),
                   Noted(cx, Step("merge", v, Head(render_rects), Head(render_rects),
                                  0, TRUE, merged, cx.updating)))

AlwaysDirect(v) == TRUE
\* if view.len() == 0 || view.is_background()
DirectlyRendered(v) == len(v) = 0 \/ is_background(v)

Restored(before, after) == before
\* bgs: &mut Vec<Rectangle>, one vector for the whole pass: what a child's
\* subtree appended is still in it when the next child is rendered.
Carried(before, after) == after

RECURSIVE render(_, _, _, _, _, _)
RECURSIVE RenderChildren(_, _, _, _, _, _, _)

\* for i in 0..view.len() { render(view.child(i), ..) }
RenderChildren(v, i, wait, ids, rects, bgs, cx) ==
  IF i > len(v)
  THEN [rects |-> rects, bgs |-> bgs, cx |-> cx]
  ELSE LET r == render(child(v, i), wait, ids, rects, bgs, cx)
       IN RenderChildren(v, i + 1, wait, ids, r.rects, Carried(bgs, r.bgs), r.cx)

render(v, wait, ids, rects, bgs, cx) ==
  LET \* .. else { bgs.extend(ids.get(&view.id()).cloned().into_iter().flatten()) }
      bgs1 == IF DirectlyRendered(v) THEN bgs ELSE bgs \o Queued(ids, v)
      AfterMerge(merged) == RenderChildren(v, 1, wait, ids, merged.rects, bgs1, merged.cx)
      AfterPaints(painted) == AfterMerge(MergeAll(v, rects, painted.render_rects, painted.cx))
      AfterVisit(cx0) ==
        AfterPaints(IF DirectlyRendered(v)
                    THEN PaintLoop(v, wait, Candidates(v, ids, rects, bgs), rects, <<>>, cx0)
                    ELSE [render_rects |-> <<>>, cx |-> cx0])
  IN AfterVisit(Noted(cx, [Step("visit", v, views[v].rect, views[v].rect, 0, TRUE, rects,
                                cx.updating)
                             EXCEPT !.bgs = bgs]))

\* for (id, rect) in pairs.into_iter().rev() { ids.entry(id).or_insert_with(Vec::new).push(rect) }
RECURSIVE IdsOf(_, _)
IdsOf(pairs, ids) ==
  IF pairs = <<>> THEN ids
  ELSE LET id == Head(pairs)[1]
           r == Head(pairs)[2]
       IN IdsOf(Tail(pairs),
                IF id = <<>> THEN ids
                ELSE IF id[1] \in DOMAIN ids
                     THEN [ids EXCEPT ![id[1]] = Append(@, r)]
                     ELSE [k \in DOMAIN ids \cup {id[1]} |-> IF k = id[1] THEN <<r>> ELSE ids[k]])

EveryPair(pairs) == [i \in 1..Len(pairs) |-> pairs[i][2]]
\* .. else { bgs.push(rect) }
BgsOf(pairs) == [i \in 1..Len(SelectSeq(pairs, LAMBDA p : p[1] = <<>>)) |->
                   SelectSeq(pairs, LAMBDA p : p[1] = <<>>)[i][2]]

\* context.fb.update(&rect, mode): the driver's answer to the n-th call of the
\* pass, <<tok>> for Ok(tok) and <<>> for an error.
fb_update(cx) == cx.answers[cx.calls + 1]

NotInserted(upd, tok, r) == upd
\* match context.fb.update(&rect, mode) { Ok(tok) => { updating.insert(tok, rect); }, Err(..) => .. }
Inserted(upd, tok, r) == [k \in DOMAIN upd \cup {tok} |-> IF k = tok THEN r ELSE upd[k]]

\* for rect in rects { .. }
RECURSIVE UpdateAll(_, _, _)
UpdateAll(rects, mode, cx) ==
  IF rects = <<>> THEN cx
  ELSE LET res == fb_update(cx)
           upd == IF res = <<>> THEN cx.updating ELSE Inserted(cx.updating, res[1], Head(rects))
       IN UpdateAll(Tail(rects), mode,
                    [cx EXCEPT !.updating = upd, !.calls = @ + 1,
                               !.log = Append(@, [Step("update", 0, Head(rects), Head(rects),
                                                       IF res = <<>> THEN 0 ELSE res[1],
                                                       res # <<>>, <<>>, upd)
                                                  EXCEPT !.mode = mode])])

\* One (mode, wait) group of the queue: the maps, the render pass, the updates.
RenderGroup(key, pairs, cx) ==
  LET AfterUpdates(ids, r, done) ==
        [done EXCEPT !.groups = Append(@, [mode |-> key[1], wait |-> key[2], pairs |-> pairs,
                                           ids |-> ids, bgs |-> r.bgs, rects |-> r.rects,
                                           before |-> cx.updating,
                                           log |-> done.log])]
      AfterRender(ids, r) == AfterUpdates(ids, r, UpdateAll(r.rects, key[1], r.cx))
      WithIds(ids) ==
        AfterRender(ids, render(RootId, key[2], ids, <<>>, BgsOf(Reverse(pairs)),
                                [cx EXCEPT !.log = <<>>]))
  IN WithIds(IdsOf(Reverse(pairs), EmptyMap))

\* for ((mode, wait), pairs) in rq.drain() { .. }, the groups in the order the map yields them
RECURSIVE Drain(_, _, _)
RECURSIVE DrainRest(_, _, _)
Drain(order, q, cx) ==
  IF order = <<>> THEN cx
  ELSE DrainRest(order, q, RenderGroup(Head(order), q[Head(order)], cx))
\* the group has been rendered and noted before the next one is taken up
DrainRest(order, q, done) ==
  CASE done.groups # <<>> -> Drain(Tail(order), q, done)

AnySequence(S) == [1..Cardinality(S) -> S]
\* The orders in which a map may yield the keys of S.
Orders(S) == {o \in [1..Cardinality(S) -> S] : \A i, j \in 1..Cardinality(S) : i # j => o[i] # o[j]}

process_render_queue(q, upd, order, fails, answers) ==
  Drain(order, q, [updating |-> upd, fails |-> fails, answers |-> answers, calls |-> 0,
                   log |-> <<>>, groups |-> <<>>])

----------------------------------------------------------------------------
\* Trees

View(children, r, bg, skip, kind) ==
  [children |-> children, rect |-> r, is_background |-> bg, might_skip |-> skip,
   kind |-> kind, partial |-> FALSE]

Screen == rect(0, 0, 40, 40)

\* The shapes of tree the dispatch model starts from: each maps a view to the
\* sequence of its children, lowest z-level first.
Shapes ==
  { (1 :> <<2, 3>>) @@ (2 :> <<4>>) @@ (3 :> <<>>) @@ (4 :> <<>>),
    (1 :> <<2, 3>>) @@ (2 :> <<>>) @@ (3 :> <<4>>) @@ (4 :> <<>>),
    (1 :> <<2>>) @@ (2 :> <<3>>) @@ (3 :> <<4>>) @@ (4 :> <<>>),
    (1 :> <<2, 3, 4>>) @@ (2 :> <<>>) @@ (3 :> <<>>) @@ (4 :> <<>>),
    (1 :> <<>>) }

\* The tree of one shape, with a handler kind for each view and the view that
\* skips taps (0 when none does).
DispatchTree(shape, kinds, skipper) ==
  [v \in DOMAIN shape |->
     View(shape[v], Screen, FALSE, IF v = skipper THEN {"Tap"} ELSE {}, kinds[v])]

----------------------------------------------------------------------------
\* The dispatch model: one pass over any tree.

InitDispatch ==
  /\ \E shape \in Shapes :
       \E kinds \in [DOMAIN shape -> Kinds], skipper \in {0} \cup DOMAIN shape :
         views = DispatchTree(shape, kinds, skipper)
  /\ chan = <<>>
  /\ bus = <<>>
  /\ rq = RenderQueue_new
  /\ updating = EmptyMap
  /\ pc = "idle"
  /\ pass = NoPass
  /\ frame = NoFrame
  /\ act = "Init"
  /\ added = 0
  /\ ID_FEEDER = RootId + Cardinality(DOMAIN views)
  /\ callers = NoCallers
  /\ issued = <<>>
  /\ history = <<>>
  /\ context = NoContext
  /\ threads = NoThreads

\* handle_event(view.as_mut(), &evt, &tx, &mut bus, &mut rq, &mut context)
Dispatch(name) ==
  /\ pc = "idle"
  /\ pass' = DispatchPass(name, "worker", bus, rq)
  /\ bus' = pass'.bus
  /\ rq' = pass'.rq
  /\ views' = AfterPass(pass')
  /\ pc' = "dispatched"
  /\ act' = "Dispatch"
  /\ UNCHANGED <<chan, updating, frame, added,
                 ID_FEEDER, callers, issued,
                 history, context, threads>>

\* The bus and the queue are handed on; the next pass starts afresh.
Settle ==
  /\ pc = "dispatched"
  /\ pc' = "idle"
  /\ pass' = NoPass
  /\ bus' = <<>>
  /\ rq' = RenderQueue_new
  /\ act' = "Init"
  /\ UNCHANGED <<views, chan, updating, frame, added,
                 ID_FEEDER, callers, issued,
                 history, context, threads>>

NextDispatch ==
  \/ \E name \in RootEvents : Dispatch(name)
  \/ Settle

SpecDispatch == InitDispatch /\ [][NextDispatch]_vars

----------------------------------------------------------------------------
\* Reading the tree and the record of a pass

Ids == DOMAIN views
Kids(v) == {child(v, i) : i \in 1..len(v)}
ParentOf(v) == CHOOSE p \in Ids : v \in Kids(p)

RECURSIVE Subtree(_)
Subtree(v) == {v} \cup UNION {Subtree(c) : c \in Kids(v)}
Descendants(v) == Subtree(v) \ {v}

RECURSIVE Depth(_)
Depth(v) == IF v = RootId THEN 0 ELSE 1 + Depth(ParentOf(v))

\* The ancestors of v, nearest first, up to the root.
RECURSIVE AncestorPath(_)
AncestorPath(v) == IF v = RootId THEN <<>> ELSE <<ParentOf(v)>> \o AncestorPath(ParentOf(v))

Log == pass.log
At(k, v) == {i \in 1..Len(Log) : Log[i].k = k /\ Log[i].v = v}
Entered(v) == At("c", v) # {}
ReturnOf(v) == Log[CHOOSE i \in At("r", v) : TRUE]
\* The invocations of the own handler of v: with the original event, with bus events.
OwnOriginal(v) == {i \in At("h", v) : IsOriginal(Log[i].e)}
OwnFollowUp(v) == {i \in At("h", v) : ~IsOriginal(Log[i].e)}
\* The invocations of any handler with event e, in the order they happened.
Offers(e) == SelectSeq(Log, LAMBDA x : x.k = "h" /\ x.e = e)
\* Every event pushed on a bus during the pass.
Pushed == UNION {{Log[i].out[j] : j \in 1..Len(Log[i].out)} : i \in {i \in 1..Len(Log) : Log[i].k = "h"}}
InSeq(x, q) == \E i \in 1..Len(q) : q[i] = x
IsPrefix(p, q) == Len(p) <= Len(q) /\ \A i \in 1..Len(p) : p[i] = q[i]


----------------------------------------------------------------------------
\* Claims about event dispatch

\* C1: the children of a view are offered the event from the highest index to
\* the lowest, each only after every child above it has returned false; once
\* the dispatch into a child has returned true, nothing in the subtree of a
\* child with a lower index is entered or has its handler invoked in the pass.
C1_HighestFirstAndExclusive ==
  \A p \in Ids :
    /\ (Entered(p) /\ HasChildren(p) /\ ~might_skip(p, Original(pass.evt)))
         => Entered(child(p, len(p)))
    /\ \A i, j \in 1..len(p) :
         i > j =>
           /\ Entered(child(p, j)) =>
                /\ Entered(child(p, i))
                /\ ~ReturnOf(child(p, i)).ret
                /\ \A a \in At("r", child(p, i)), b \in At("c", child(p, j)) : a < b
           /\ (Entered(child(p, i)) /\ ReturnOf(child(p, i)).ret) =>
                \A d \in Subtree(child(p, j)), n \in 1..Len(Log) : Log[n].v # d

\* C1 witness: a child captured the event while a sibling below it, itself
\* a container whose child would have accepted the event, was left out.
C1_Witness ==
  \E p \in Ids : \E i, j \in 1..len(p) :
    /\ i > j
    /\ Entered(child(p, i)) /\ ReturnOf(child(p, i)).ret
    /\ HasChildren(child(p, j))
    /\ \E d \in Kids(child(p, j)) : Respond(views[d].kind, pass.evt).ret

\* What C2 says of one view v that skips the event of the pass, once
\* handle_event has been entered for it.
SkippedCleanly(v) ==
  /\ ~ReturnOf(v).ret
  /\ ReturnOf(v).out = <<>>
  /\ \A a \in At("c", v) : Log[a].nrq = ReturnOf(v).nrq
  /\ \A d \in Subtree(v) : At("h", d) = {}

\* C2 as stated: for every view, leaf or container, whose might_skip reports
\* true, handle_event returns false, no handler of its subtree is invoked and
\* nothing is added to the render queue or the parent bus.
C2_SkipAnyView ==
  \A v \in Ids : (Entered(v) /\ might_skip(v, Original(pass.evt))) => SkippedCleanly(v)

\* C2 amended: the same for every view that has children; might_skip is not
\* consulted for a view without children.
C2_SkipContainer ==
  \A v \in Ids :
    (Entered(v) /\ HasChildren(v) /\ might_skip(v, Original(pass.evt))) => SkippedCleanly(v)

\* C2 witness: a container that skips the event was entered, and a child of
\* it would have accepted the event.
C2_Witness ==
  \E v \in Ids :
    /\ Entered(v) /\ HasChildren(v) /\ might_skip(v, Original(pass.evt))
    /\ \E d \in Kids(v) : Respond(views[d].kind, pass.evt).ret

\* C3: a view with children that does not skip returns true iff the dispatch
\* into one of its children returned true or its own handler accepted the
\* original event; a view without children returns what its handler returned.
C3_ReturnValue ==
  \A v \in Ids :
    Entered(v) =>
      IF HasChildren(v)
      THEN might_skip(v, Original(pass.evt)) \/
           (ReturnOf(v).ret <=>
              \/ \E c \in Kids(v) : Entered(c) /\ ReturnOf(c).ret
              \/ \E i \in OwnOriginal(v) : Log[i].ret)
      ELSE /\ Cardinality(OwnOriginal(v)) = 1
           /\ \A i \in OwnOriginal(v) : ReturnOf(v).ret = Log[i].ret

\* C3 witness: a container returned true on the word of its own handler, all
\* its children having returned false.
C3_Witness ==
  \E v \in Ids :
    /\ Entered(v) /\ HasChildren(v) /\ ReturnOf(v).ret
    /\ \A c \in Kids(v) : Entered(c) /\ ~ReturnOf(c).ret

\* C4: once the dispatch into a view has returned true, no ancestor of it has
\* its own handler invoked with the original event; at most one invocation of
\* a handler with the original event returns true in a pass.
C4_AncestorsNotInvoked ==
  /\ \A d \in Ids :
       (Entered(d) /\ ReturnOf(d).ret) =>
         \A n \in 1..Len(AncestorPath(d)) : OwnOriginal(AncestorPath(d)[n]) = {}
  /\ Cardinality({i \in 1..Len(Log) : Log[i].k = "h" /\ IsOriginal(Log[i].e) /\ Log[i].ret}) <= 1

\* C4 witness: a view two levels down captured the event, below ancestors
\* whose own handlers would have accepted it, and one of them was invoked
\* with an event from its child bus.
C4_Witness ==
  \E d \in Ids :
    /\ Entered(d) /\ ReturnOf(d).ret /\ Len(AncestorPath(d)) >= 2
    /\ \A n \in 1..Len(AncestorPath(d)) : Respond(views[AncestorPath(d)[n]].kind, pass.evt).ret
    /\ \E n \in 1..Len(AncestorPath(d)) : OwnFollowUp(AncestorPath(d)[n]) # {}

\* C5: the own handler of a view that has children is never invoked with the
\* event the pass started with.
C5_OnlyLeavesHandleRootEvents ==
  \A v \in Ids : HasChildren(v) => OwnOriginal(v) = {}

\* The follow-up events the own handler of v was offered, in the order of the offers.
Offered(v) == [x \in 1..Len(SelectSeq(Log, LAMBDA y : y.k = "h" /\ y.v = v /\ ~IsOriginal(y.e))) |->
                 SelectSeq(Log, LAMBDA y : y.k = "h" /\ y.v = v /\ ~IsOriginal(y.e))[x].e]
\* Whether the own handler of v consumed the follow-up event e.
Consumed(v, e) == \E i \in OwnFollowUp(v) : Log[i].e = e /\ Log[i].ret
Filters(v) == Entered(v) /\ HasChildren(v) /\ ~might_skip(v, Original(pass.evt))

\* C6: the events of a view's child bus are offered to its own handler in bus
\* order, each exactly once; a consumed event leaves the bus and the others
\* pass to the parent bus. So a pushed event is offered to the ancestors of
\* its pusher nearest first, level by level, up to the first that consumes
\* it, and reaches the bus of the pass only if none did.
C6_FollowUpsClimbOneLevelAtATime ==
  /\ \A v \in Ids :
       Filters(v) =>
         /\ Offered(v) = ReturnOf(v).cb
         /\ \A n \in 1..Len(ReturnOf(v).cb) :
              Consumed(v, ReturnOf(v).cb[n]) <=> ~InSeq(ReturnOf(v).cb[n], ReturnOf(v).out)
  /\ \A e \in Pushed :
       LET offers == Offers(e)
           path == AncestorPath(e.src)
       IN /\ Len(offers) <= Len(path)
          /\ \A n \in 1..Len(offers) :
               /\ offers[n].v = path[n]
               /\ offers[n].ret => n = Len(offers)
          /\ InSeq(e, pass.out) <=>
               (Len(offers) = Len(path) /\ \A n \in 1..Len(offers) : ~offers[n].ret)
          /\ Cardinality({n \in 1..Len(pass.out) : pass.out[n] = e}) <= 1

\* C6 witness: a pushed event was passed on by the parent of its pusher and
\* consumed one level higher, below the root.
C6_Witness ==
  \E e \in Pushed :
    /\ Len(Offers(e)) = 2
    /\ Offers(e)[2].ret
    /\ Len(AncestorPath(e.src)) > 2

\* The order in which C7 says a view hands events to its parent bus.
HandedUpInOrder(v) ==
  LET r == ReturnOf(v)
      unconsumed == SelectSeq(r.cb, LAMBDA e : ~Consumed(v, e))
      filtering == Flatten([x \in 1..Len(SelectSeq(Log, LAMBDA y : y.k = "h" /\ y.v = v /\ ~IsOriginal(y.e))) |->
                      SelectSeq(Log, LAMBDA y : y.k = "h" /\ y.v = v /\ ~IsOriginal(y.e))[x].out])
      original == Flatten([x \in 1..Len(SelectSeq(Log, LAMBDA y : y.k = "h" /\ y.v = v /\ IsOriginal(y.e))) |->
                      SelectSeq(Log, LAMBDA y : y.k = "h" /\ y.v = v /\ IsOriginal(y.e))[x].out])
  IN r.out = unconsumed \o filtering \o original

\* C7 as stated: the parent bus receives the unconsumed child-bus events,
\* then what the handler pushed while filtering, then what it pushed for the
\* original event; and on the bus of the pass an event pushed at some depth
\* comes after every event pushed by a handler nested deeper.
C7_DeeperAlwaysFirst ==
  /\ \A v \in Ids : Filters(v) => HandedUpInOrder(v)
  /\ \A i, j \in 1..Len(pass.out) :
       Depth(pass.out[j].src) > Depth(pass.out[i].src) => j < i

\* C7 amended: the same order of the three groups; and on the bus of the
\* pass an event pushed by a view comes after every event pushed by a
\* descendant of that view.
C7_DescendantsFirst ==
  /\ \A v \in Ids : Filters(v) => HandedUpInOrder(v)
  /\ \A i, j \in 1..Len(pass.out) :
       pass.out[j].src \in Descendants(pass.out[i].src) => j < i

\* C7 witness: a view below the root handed up all three groups at once, and
\* they reached the bus of the pass.
C7_Witness ==
  \E v \in Ids \ {RootId} :
    /\ Filters(v)
    /\ \E a, b, c \in 1..Len(ReturnOf(v).out) :
         /\ ReturnOf(v).out[a].src # v
         /\ ReturnOf(v).out[b].src = v /\ ReturnOf(v).out[b].ph = "filter"
         /\ ReturnOf(v).out[c].src = v /\ ReturnOf(v).out[c].ph = "orig"
         /\ InSeq(ReturnOf(v).out[a], pass.out)
         /\ InSeq(ReturnOf(v).out[c], pass.out)

----------------------------------------------------------------------------
\* The render model: requests are queued against a scene and the queue is
\* drained, as the main loop does at the end of each iteration.

Leaf(r) == [View(<<>>, r, FALSE, {}, "Ignore") EXCEPT !.partial = FALSE]
PartialLeaf(r) == [View(<<>>, r, FALSE, {}, "Ignore") EXCEPT !.partial = TRUE]
Container(children, r) == View(children, r, FALSE, {}, "Ignore")
Background(children, r) == View(children, r, TRUE, {}, "Ignore")

Scenes ==
  { \* three leaves in a row, the first two adjacent
    (1 :> Container(<<2, 3, 4>>, Screen)) @@ (2 :> Leaf(rect(0, 0, 10, 10)))
      @@ (3 :> Leaf(rect(10, 0, 20, 10))) @@ (4 :> Leaf(rect(25, 0, 35, 10))),
    \* the leaf visited last lies against the one visited first
    (1 :> Container(<<2, 3, 4>>, Screen)) @@ (2 :> Leaf(rect(0, 0, 10, 10)))
      @@ (3 :> Leaf(rect(20, 20, 30, 30))) @@ (4 :> Leaf(rect(10, 0, 20, 10))),
    \* the leaf visited last fills the gap between the two visited before it
    (1 :> Container(<<2, 3, 4>>, Screen)) @@ (2 :> Leaf(rect(0, 0, 10, 10)))
      @@ (3 :> Leaf(rect(20, 0, 30, 10))) @@ (4 :> Leaf(rect(10, 0, 20, 10))),
    \* the leaf visited last lies against the second, both apart from the first
    (1 :> Container(<<2, 3, 4>>, Screen)) @@ (2 :> Leaf(rect(0, 0, 10, 10)))
      @@ (3 :> Leaf(rect(20, 20, 30, 30))) @@ (4 :> Leaf(rect(30, 20, 40, 30))),
    \* a background layer over a nested container
    (1 :> Background(<<2, 3>>, Screen)) @@ (2 :> Container(<<4>>, rect(0, 0, 20, 40)))
      @@ (3 :> Leaf(rect(20, 0, 40, 40))) @@ (4 :> Leaf(rect(0, 0, 20, 20))),
    \* a popup over a view that can repaint parts of itself
    (1 :> Container(<<2, 3>>, Screen)) @@ (2 :> PartialLeaf(Screen))
      @@ (3 :> Leaf(rect(10, 10, 30, 30))) }

\* The rectangles that are exposed or repainted in part.
Parts == {rect(0, 0, 20, 10), rect(10, 10, 30, 30)}

\* The requests that may be queued against the scene.
Requests ==
  {RenderData_new(v, views[v].rect, mode) : v \in Ids, mode \in UpdateModes}
    \cup {RenderData_no_wait(v, views[v].rect, "Gui") : v \in Ids}
    \cup {RenderData_new(v, r, "Gui") : v \in {v \in Ids : views[v].partial}, r \in Parts}
    \cup {RenderData_expose(r, "Gui") : r \in Parts}

InitRender ==
  /\ views \in Scenes
  /\ chan = <<>>
  /\ bus = <<>>
  /\ rq = RenderQueue_new
  /\ updating = EmptyMap
  /\ pc = "render"
  /\ pass = NoPass
  /\ frame = NoFrame
  /\ act = "Init"
  /\ added = 0
  /\ ID_FEEDER = RootId + Cardinality(DOMAIN views)
  /\ callers = NoCallers
  /\ issued = <<>>
  /\ history = <<>>
  /\ context = NoContext
  /\ threads = NoThreads

\* rq.add(..)
Add(data) ==
  /\ added < MaxQueue
  /\ added' = added + 1
  /\ rq' = RenderQueue_add(rq, data)
  /\ frame' = NoFrame
  /\ act' = "Add"
  /\ UNCHANGED <<views, chan, bus, updating, pc, pass,
                 ID_FEEDER, callers, issued,
                 history, context, threads>>

\* The driver's answers to the update calls of one pass: tokens in sequence from seed.
Serial(seed) == [n \in 1..(MaxQueue * 4) |-> <<((seed + n - 2) % MaxToken) + 1>>]

\* process_render_queue(view.as_ref(), &mut rq, &mut context, &mut updating), the
\* map yielding its groups in the given order and the driver answering as given.
ProcessRenderQueue(order, fails, answers) ==
  LET AfterDrain(done) ==
        /\ rq' = RenderQueue_new
        /\ updating' = done.updating
        /\ frame' = done.groups
        /\ act' = "Render"
  IN AfterDrain(process_render_queue(rq, updating, order, fails, answers))

Render ==
  /\ \E order \in Orders(DOMAIN rq), seed \in 1..MaxToken :
       ProcessRenderQueue(order, {}, Serial(seed))
  /\ UNCHANGED <<views, chan, bus, pc, pass, added,
                 ID_FEEDER, callers, issued,
                 history, context, threads>>

NextRender ==
  \/ \E data \in Requests : Add(data)
  \/ Render

SpecRender == InitRender /\ [][NextRender]_vars

----------------------------------------------------------------------------
\* Claims about the running rectangles of a render pass (SpecRender)

\* The groups of the pass that has just ended.
Groups == {frame[i] : i \in 1..Len(frame)}
Merges(g) == SelectSeq(g.log, LAMBDA s : s.k = "merge")

\* C10 (as stated): at the end of a render pass no two entries of the final
\* list of running rectangles touch each other and none is contained in another.
C10_NoTwoTouchOrNest ==
  \A g \in Groups : \A i, j \in 1..Len(g.rects) :
    i # j => ~touches(g.rects[i], g.rects[j]) /\ ~contains(g.rects[i], g.rects[j])

\* C10 (amended): at the end of a render pass no two consecutive entries of the
\* final list of running rectangles touch each other and no entry is contained
\* in an entry that precedes it.
C10_NeighboursApartNoneInEarlier ==
  \A g \in Groups :
    /\ \A i \in 1..(Len(g.rects) - 1) : ~touches(g.rects[i], g.rects[i + 1])
    /\ \A i, j \in 1..Len(g.rects) : i < j => ~contains(g.rects[i], g.rects[j])

\* A pass that ended with several running rectangles after merging more
\* produced rectangles than it kept.
C10_Witness ==
  /\ act = "Render"
  /\ \E g \in Groups : Len(g.rects) >= 2 /\ Len(Merges(g)) > Len(g.rects)

----------------------------------------------------------------------------
\* The main loop (emulator.rs): worker threads send events into the channel;
\* the loop receives until the channel stays empty, processes the render
\* queue, and writes what is left on the root bus back into the channel.

\* An event in the channel and who sent it: a worker thread or the loop's flush of the bus.
Sent(name, from) == [name |-> name, from |-> from]

LoopShapes ==
  { (1 :> <<2, 3, 4>>) @@ (2 :> <<>>) @@ (3 :> <<>>) @@ (4 :> <<>>),
    (1 :> <<2, 3>>) @@ (2 :> <<4>>) @@ (3 :> <<>>) @@ (4 :> <<>>) }
\* The handlers of views 1..4 in the trees the loop runs on.
LoopHandlers ==
  { <<"Ignore", "Ignore", "Ignore", "Ignore">>,
    <<"Ignore", "Ignore", "Emit", "Consume">>,
    <<"Ignore", "Consume", "Ignore", "Emit">>,
    <<"Ignore", "Emit", "Consume", "Ignore">>,
    <<"Consume", "Ignore", "Capture", "Emit">> }

Init ==
  /\ \E shape \in LoopShapes, kinds \in LoopHandlers :
       views = DispatchTree(shape, kinds, 0)
  /\ chan = <<>>
  /\ bus = <<>>
  /\ rq = RenderQueue_new
  /\ updating = EmptyMap
  /\ pc = "recv"
  /\ pass = NoPass
  /\ frame = NoFrame
  /\ act = "Init"
  /\ added = 0
  /\ ID_FEEDER = RootId + Cardinality(DOMAIN views)
  /\ callers = NoCallers
  /\ issued = <<>>
  /\ history = <<>>
  /\ context = NoContext
  /\ threads = NoThreads

\* The number of requests waiting in the render queue.
RECURSIVE QueueLen(_, _)
QueueLen(q, keys) ==
  IF keys = {} THEN 0
  ELSE LET k == CHOOSE k \in keys : TRUE IN Len(q[k]) + QueueLen(q, keys \ {k})

\* tx2.send(evt).ok() / tx3.send(Event::ClockTick).ok() in the worker threads
Send(name) ==
  /\ Len(chan) + Len(bus) < MaxChan
  /\ QueueLen(rq, DOMAIN rq) < MaxQueue
  /\ chan' = Append(chan, Sent(name, "worker"))
  /\ act' = "Send"
  /\ UNCHANGED <<views, bus, rq, updating, pc, pass, frame, added,
                 ID_FEEDER, callers, issued,
                 history, context, threads>>

ResendUnaccepted(rest, name, captured) ==
  IF captured THEN rest ELSE Append(rest, Sent(name, "loop"))
\* _ => { handle_event(view.as_mut(), &evt, &tx, &mut bus, &mut rq, &mut context); }
\* The channel after the arm: the result of handle_event is not looked at.
AfterDispatch(rest, name, captured) == rest

\* The events for which match evt has an arm of its own in the model.
ArmEvents == {"Close", "Notify", "Open", "Launch", "Back", "SetWifi", "NetUp", "AddDocument"}

\* while let Ok(evt) = rx.recv_timeout(..) { match evt { .. _ => handle_event(..) } }
Recv ==
  /\ pc = "recv"
  /\ chan # <<>>
  /\ Head(chan).name \notin ArmEvents
  /\ pass' = DispatchPass(Head(chan).name, Head(chan).from, bus, rq)
  /\ bus' = pass'.bus
  /\ rq' = pass'.rq
  /\ views' = AfterPass(pass')
  /\ chan' = AfterDispatch(Tail(chan), Head(chan).name, pass'.captured)
  /\ act' = "Recv"
  /\ UNCHANGED <<updating, pc, frame, added,
                 ID_FEEDER, callers, issued,
                 history, context, threads>>

\* rx.recv_timeout(..) is Err: nothing came within the timeout
Timeout ==
  /\ pc = "recv"
  /\ chan = <<>>
  /\ pc' = "render"
  /\ act' = "Timeout"
  /\ UNCHANGED <<views, chan, bus, rq, updating, pass, frame, added,
                 ID_FEEDER, callers, issued,
                 history, context, threads>>

\* process_render_queue(view.as_ref(), &mut rq, &mut context, &mut updating);
LoopRender ==
  /\ pc = "render"
  /\ \E order \in Orders(DOMAIN rq), seed \in 1..MaxToken :
       ProcessRenderQueue(order, {}, Serial(seed))
  /\ pc' = "flush"
  /\ UNCHANGED <<views, chan, bus, pass, added,
                 ID_FEEDER, callers, issued,
                 history, context, threads>>

\* while let Some(ce) = bus.pop_front() { tx.send(ce).ok(); }
SendBus ==
  /\ pc = "flush"
  /\ bus # <<>>
  /\ chan' = Append(chan, Sent(Head(bus).name, "bus"))
  /\ bus' = Tail(bus)
  /\ act' = "SendBus"
  /\ UNCHANGED <<views, rq, updating, pc, pass, frame, added,
                 ID_FEEDER, callers, issued,
                 history, context, threads>>

\* bus.pop_front() is None: back to the top of 'outer
FlushDone ==
  /\ pc = "flush"
  /\ bus = <<>>
  /\ pc' = "recv"
  /\ pass' = NoPass
  /\ frame' = NoFrame
  /\ act' = "FlushDone"
  /\ UNCHANGED <<views, chan, bus, rq, updating, added,
                 ID_FEEDER, callers, issued,
                 history, context, threads>>

\* The view id a Close event names: the view_id given to Notification::new, here
\* that of the view created last, numbered with the id the feeder issued last.
\* Every view but the root carries its own id as view id.
CloseIds == {ID_FEEDER - 1}

\* hub2.send(Event::Close(view_id)).ok() in the thread a notification spawns
SendClose(id) ==
  /\ Len(chan) + Len(bus) < MaxChan
  /\ QueueLen(rq, DOMAIN rq) < MaxQueue
  /\ chan' = Append(chan, [name |-> "Close", from |-> "worker", id |-> id])
  /\ act' = "SendClose"
  /\ UNCHANGED <<views, bus, rq, updating, pc, pass, frame, added,
                 ID_FEEDER, callers, issued,
                 history, context, threads>>

\* View::view_id of view c: a notification carries the view id it was made
\* with, every other view of the model its own id.
View_view_id(c) == IF "view_id" \in DOMAIN views[c] THEN views[c].view_id ELSE c

\* The first child, whatever view id it carries.
locate_first(v, id) == IF len(v) = 0 THEN <<>> ELSE <<1>>

\* locate_by_id, an Option: the index of the first child of v whose view id is
\* id, <<>> when no child carries it.
locate_by_id(v, id) ==
  LET found == {i \in 1..len(v) : View_view_id(child(v, i)) = id}
  IN IF found = {} THEN <<>> ELSE <<CHOOSE i \in found : \A j \in found : i <= j>>

\* overlapping_rectangle: the rectangle of v absorbed with those of its subtree.
RECURSIVE AbsorbAll(_, _)
AbsorbAll(r, vs) ==
  IF vs = {} THEN r
  ELSE LET v == CHOOSE v \in vs : TRUE IN AbsorbAll(absorb(r, views[v].rect), vs \ {v})
overlapping_rectangle(v) == AbsorbAll(views[v].rect, Descendants(v))

\* The root after children_mut().remove(index): the child and its subtree are gone.
Removed(index) ==
  LET gone == child(RootId, index)
      left == SubSeq(views[RootId].children, 1, index - 1)
                \o SubSeq(views[RootId].children, index + 1, len(RootId))
  IN [v \in Ids \ Subtree(gone) |->
        IF v = RootId THEN [views[v] EXCEPT !.children = left] ELSE views[v]]

\* Event::Close(id) => { if let Some(index) = locate_by_id(view.as_ref(), id) { .. } }
RecvClose ==
  /\ pc = "recv"
  /\ chan # <<>>
  /\ Head(chan).name = "Close"
  /\ LET index == locate_by_id(RootId, Head(chan).id)
     IN /\ IF index # <<>>
           THEN /\ rq' = RenderQueue_add(rq, RenderData_expose(
                            overlapping_rectangle(child(RootId, index[1])), "Gui"))
                /\ views' = Removed(index[1])
           ELSE UNCHANGED <<views, rq>>
        /\ pass' = [NoPass EXCEPT !.evt = "Close", !.from = Head(chan).from,
                                  !.captured = index # <<>>,
                                  !.out = <<Head(chan).id>>]
  /\ chan' = Tail(chan)
  /\ act' = "RecvClose"
  /\ UNCHANGED <<bus, updating, pc, frame, added, ID_FEEDER, callers, issued,
                 history, context, threads>>

Next ==
  \/ \E name \in RootEvents : Send(name)
  \/ \E id \in CloseIds : SendClose(id)
  \/ Recv
  \/ RecvClose
  \/ Timeout
  \/ LoopRender
  \/ SendBus
  \/ FlushDone

Spec == Init /\ [][Next]_vars

----------------------------------------------------------------------------
\* Claims about the main loop (Spec)

Leaves == {v \in Ids : len(v) = 0}

\* C8: an event that reaches the root bus uncaptured is written to the main
\* channel, in the order of the root bus and after the render queue of the
\* iteration has been processed, and when the loop dispatches it again the own
\* handler of every leaf of the tree is invoked with it.
C8_BubbledEventsReachEveryLeaf ==
  [][ /\ act' = "SendBus" =>
           /\ pc = "flush" /\ rq = RenderQueue_new
           /\ chan' = Append(chan, Sent(Head(bus).name, "bus"))
           /\ bus' = Tail(bus)
      /\ (act' = "Recv" /\ pass'.from = "bus") =>
           \A v \in Leaves : \E i \in 1..Len(pass'.log) :
             pass'.log[i].k = "h" /\ pass'.log[i].v = v /\ IsOriginal(pass'.log[i].e)
    ]_vars

\* C9 (as stated): when the last event the loop dispatched in an iteration was
\* accepted by no view, the loop has sent that event again by the end of the
\* iteration: it is in the channel, sent by someone other than a worker thread.
C9_UnacceptedIsResent ==
  (pc = "flush" /\ bus = <<>> /\ pass.evt # "" /\ ~pass.captured)
    => \E i \in 1..Len(chan) : chan[i].name = pass.evt /\ chan[i].from # "worker"

\* C9 (amended): when no view accepts an event the loop dispatched, the loop
\* does not send it again: the step takes the event off the channel and adds
\* nothing to it, the root bus gains exactly what the pass left for it, and
\* the channel only ever holds events sent by workers or flushed from the bus.
C9_UnacceptedIsDropped ==
  [][ /\ (act' = "Recv" /\ ~pass'.captured) =>
           chan' = Tail(chan) /\ bus' = bus \o pass'.out
      /\ \A i \in 1..Len(chan') : chan'[i].from \in {"worker", "bus"}
    ]_vars

\* The loop has dispatched a worker's event that every handler of the tree
\* was offered and none accepted.
C9_Witness ==
  /\ act = "Recv"
  /\ pass.evt \in RootEvents /\ pass.from = "worker"
  /\ ~pass.captured
  /\ \A v \in Ids : OwnOriginal(v) # {}

----------------------------------------------------------------------------
\* Claims about what the merge keeps (SpecRender)

\* The rectangles the paints of the group produced, in the order they were merged.
Produced(g) == [i \in 1..Len(Merges(g)) |-> Merges(g)[i].rect]
Among(q) == {q[i] : i \in 1..Len(q)}

\* The area a list of rectangles covers, as the set of unit cells in them.
Cells(r) == (r.min.x..(r.max.x - 1)) \X (r.min.y..(r.max.y - 1))
Area(q) == UNION {Cells(r) : r \in Among(q)}

\* The bounding rectangle of a set of rectangles.
RECURSIVE Bounding(_)
Bounding(S) ==
  LET r == CHOOSE r \in S : TRUE
  IN IF S = {r} THEN r ELSE absorb(r, Bounding(S \ {r}))

\* C11 (as stated): the final list of running rectangles covers exactly the
\* area that the rectangles produced by the paints cover.
C11_UnionConserved ==
  \A g \in Groups : Area(g.rects) = Area(Produced(g))

\* C11 (amended): merging drops no area but may add some: every produced
\* rectangle lies within an entry of the final list, and every entry of the
\* final list is the bounding rectangle of the produced rectangles within it.
C11_NothingDroppedBoundsKept ==
  \A g \in Groups :
    /\ \A r \in Among(Produced(g)) : \E e \in Among(g.rects) : contains(e, r)
    /\ \A e \in Among(g.rects) :
         LET within == {r \in Among(Produced(g)) : contains(e, r)}
         IN within # {} /\ e = Bounding(within)

\* A pass whose final list holds an entry that no paint produced: it grew by absorbing.
C11_Witness ==
  /\ act = "Render"
  /\ \E g \in Groups : \E e \in Among(g.rects) :
       e \notin Among(Produced(g)) /\ Len(Produced(g)) >= 2

\* The merge of the entries of a list, one after the other, into an empty list.
Remerged(q) ==
  MergeAll(RootId, <<>>, q, [log |-> <<>>, updating |-> EmptyMap]).rects

\* C12: merging nothing into the final list of running rectangles leaves it as
\* it is, and so does merging its own entries again, in order, from scratch.
C12_MergeIdempotent ==
  \A g \in Groups :
    /\ MergeAll(RootId, g.rects, <<>>, [log |-> <<>>, updating |-> EmptyMap]).rects = g.rects
    /\ Remerged(g.rects) = g.rects

\* A pass that ended with three running rectangles, the first touching the third.
C12_Witness ==
  /\ act = "Render"
  /\ \E g \in Groups : Len(g.rects) >= 3 /\ touches(g.rects[1], g.rects[3])

----------------------------------------------------------------------------
\* The three-leaf scenario: a root with three leaves in a row, the first two
\* adjacent and the third apart, each leaf asking for repaints of itself.

Row ==
  (1 :> Container(<<2, 3, 4>>, Screen)) @@ (2 :> Leaf(rect(0, 0, 10, 10)))
    @@ (3 :> Leaf(rect(10, 0, 20, 10))) @@ (4 :> Leaf(rect(25, 0, 35, 10)))

\* rq.add(RenderData::new(self.id, self.rect, ..)) and its no_wait form, by a leaf
LeafRequests ==
  {RenderData_new(v, views[v].rect, mode) : v \in Leaves, mode \in UpdateModes}
    \cup {RenderData_no_wait(v, views[v].rect, "Gui") : v \in Leaves}

InitScenario ==
  /\ views = Row
  /\ chan = <<>>
  /\ bus = <<>>
  /\ rq = RenderQueue_new
  /\ updating = EmptyMap
  /\ pc = "render"
  /\ pass = NoPass
  /\ frame = NoFrame
  /\ act = "Init"
  /\ added = 0
  /\ ID_FEEDER = RootId + Cardinality(DOMAIN views)
  /\ callers = NoCallers
  /\ issued = <<>>
  /\ history = <<>>
  /\ context = NoContext
  /\ threads = NoThreads

\* rq.add(..) by a leaf
Ask(data) ==
  /\ added < MaxAsks
  /\ added' = added + 1
  /\ rq' = RenderQueue_add(rq, data)
  /\ frame' = NoFrame
  /\ act' = "Ask"
  /\ UNCHANGED <<views, chan, bus, updating, pc, pass,
                 ID_FEEDER, callers, issued,
                 history, context, threads>>

NextScenario ==
  \/ \E data \in LeafRequests : Ask(data)
  \/ Render

SpecScenario == InitScenario /\ [][NextScenario]_vars

Updates(g) == SelectSeq(g.log, LAMBDA s : s.k = "update")
\* The group holds one request for each leaf, for the leaf's own rectangle.
EachLeafOnce(g) ==
  /\ Len(g.pairs) = Cardinality(Leaves)
  /\ Among(g.pairs) = {<< <<v>>, views[v].rect >> : v \in Leaves}

\* C13: when the leaves [0,0,10,10], [10,0,20,10] and [25,0,35,10] of one root
\* are each queued once for their own rectangle in one group, the pass ends
\* with the running rectangles [0,0,20,10], [25,0,35,10] and the group issues
\* exactly two update calls, one for each.
C13_TwoMergedRectangles ==
  \A g \in Groups :
    (views = Row /\ EachLeafOnce(g)) =>
      /\ g.rects = << rect(0, 0, 20, 10), rect(25, 0, 35, 10) >>
      /\ Len(Updates(g)) = 2
      /\ \A i \in 1..2 : Updates(g)[i].rect = g.rects[i]

\* The three leaves were queued in one group and the queue has been drained.
C13_Witness ==
  /\ act = "Render"
  /\ views = Row
  /\ \E g \in Groups : EachLeafOnce(g) /\ Len(Merges(g)) = 3

----------------------------------------------------------------------------
\* The render engine against a display driver that may fail: requests are
\* queued against a popup over a view that repaints parts of itself, the
\* queue is drained, and the screen is rotated, while waits and updates fail.

Popup ==
  (1 :> Container(<<2, 3>>, Screen)) @@ (2 :> PartialLeaf(Screen))
    @@ (3 :> Leaf(rect(10, 10, 30, 30)))

InitDriver ==
  /\ views = Popup
  /\ chan = <<>>
  /\ bus = <<>>
  /\ rq = RenderQueue_new
  /\ updating = EmptyMap
  /\ pc = "render"
  /\ pass = NoPass
  /\ frame = NoFrame
  /\ act = "Init"
  /\ added = 0
  /\ ID_FEEDER = RootId + Cardinality(DOMAIN views)
  /\ callers = NoCallers
  /\ issued = <<>>
  /\ history = <<>>
  /\ context = NoContext
  /\ threads = NoThreads

Tokens == 1..MaxToken
\* The waits that fail: none, or those on one token.
Failing == {{}} \cup {{tok} : tok \in Tokens}

\* The driver's answers when the update calls numbered in bad fail; the first
\* call of a pass is the one that may.
Faulty(seed, bad) ==
  [n \in DOMAIN Serial(seed) |-> IF n \in bad THEN <<>> ELSE Serial(seed)[n]]

\* process_render_queue(..) against a driver whose waits and updates may fail
DriverRender ==
  /\ \E order \in Orders(DOMAIN rq), fails \in Failing,
        seed \in Tokens, bad \in {{}, {1}} :
       ProcessRenderQueue(order, fails, Faulty(seed, bad))
  /\ pass' = NoPass
  /\ UNCHANGED <<views, chan, bus, pc, added,
                 ID_FEEDER, callers, issued,
                 history, context, threads>>

\* Event::Select(EntryId::Rotate(n)) if n != context.display.rotation && view.might_rotate():
\* updating.retain(|tok, _| context.fb.wait(*tok).is_err()); the square screen
\* keeps its dimensions, so nothing is resized.
Rotate(fails) ==
  LET toks == SetToSeq(DOMAIN updating)
      kept == {tok \in DOMAIN updating : KeptAfterWait(tok \notin fails)}
      upd == [tok \in kept |-> updating[tok]]
  IN /\ updating' = upd
     /\ pass' = [NoPass EXCEPT
                   !.evt = "Rotate",
                   !.log = [i \in 1..Len(toks) |->
                              Step("wait", RootId, updating[toks[i]], Screen, toks[i],
                                   toks[i] \notin fails, <<>>, upd)]]
     /\ act' = "Rotate"
     /\ UNCHANGED <<views, chan, bus, rq, pc, frame, added,
                    ID_FEEDER, callers, issued,
                 history, context, threads>>

\* The requests of the scene that ask for UpdateMode::Gui, waiting or not.
GuiRequests == {data \in Requests : data.mode = "Gui"}

\* The popup and the view under it ask for repaints; regions are exposed.
NextDriver ==
  \/ \E data \in {d \in GuiRequests : d.id # <<RootId>>} : Add(data)
  \/ DriverRender
  \/ \E fails \in Failing : Rotate(fails)

SpecDriver == InitDriver /\ [][NextDriver]_vars

----------------------------------------------------------------------------
\* Claims about waits and updates (SpecDriver)

Steps(g, k) == {i \in 1..Len(g.log) : g.log[i].k = k}
\* The last step before step i of the group that is not a wait.
Prior(g, i) ==
  CHOOSE j \in 0..(i - 1) :
    /\ j = 0 \/ g.log[j].k # "wait"
    /\ \A m \in (j + 1)..(i - 1) : g.log[m].k = "wait"
\* The tokens in flight, with their rectangles, after step j of the group.
InFlightAfter(g, j) == IF j = 0 THEN g.before ELSE g.log[j].inflight

\* C14: in a group that waits, every entry in flight whose rectangle overlaps
\* the rectangle a view is about to be painted for has been waited on, with
\* success or with an error, right before that paint, and every update call
\* of the group comes after the paint.
C14_WaitsBeforePaintAndUpdate ==
  \A g \in Groups : g.wait =>
    \A i \in Steps(g, "paint") :
      LET j == Prior(g, i)
          before == InFlightAfter(g, j)
      IN /\ \A tok \in DOMAIN before :
              overlaps(g.log[i].rr, before[tok]) =>
                \E m \in (j + 1)..(i - 1) :
                  /\ g.log[m].k = "wait" /\ g.log[m].tok = tok
                  /\ g.log[m].rect = before[tok]
         /\ \A u \in Steps(g, "update") : u > i

\* A waiting group painted a view over an entry in flight, after a wait on
\* it that returned an error, and then issued its update.
C14_Witness ==
  /\ act = "Render"
  /\ \E g \in Groups :
       /\ g.wait
       /\ \E m \in Steps(g, "wait") :
            ~g.log[m].ok /\ g.log[m + 1].k = "paint" /\ g.log[m].tok \in DOMAIN g.before
       /\ Steps(g, "update") # {}

\* The tokens waited on in the pass up to and including group n of it.
WaitedUpTo(n) ==
  UNION {{frame[m].log[i].tok : i \in Steps(frame[m], "wait")} : m \in 1..n}

\* C15 (as stated): when a waiting group issues update(rect, mode), no entry
\* in flight overlaps rect unless its token has been waited on during the pass.
C15_NoUpdateOverUnwaited ==
  \A n \in 1..Len(frame) : frame[n].wait =>
    \A u \in Steps(frame[n], "update") :
      LET before == InFlightAfter(frame[n], u - 1)
      IN \A tok \in DOMAIN before :
           overlaps(frame[n].log[u].rect, before[tok]) => tok \in WaitedUpTo(n)

\* The entries that were in flight when the group began and overlap a
\* rectangle that the group painted.
PaintedOver(g) ==
  {tok \in DOMAIN g.before :
     \E i \in Steps(g, "paint") : overlaps(g.log[i].rr, g.before[tok])}

\* C15 (amended): when a waiting group issues update(rect, mode), every entry
\* still in flight that was in flight when the group began and overlaps a
\* rectangle painted in the group has been waited on in the group; entries the
\* pass itself added, or that only overlap area the merge added, need not be.
C15_PaintedOverWereWaitedOn ==
  \A n \in 1..Len(frame) : frame[n].wait =>
    \A u \in Steps(frame[n], "update") :
      LET before == InFlightAfter(frame[n], u - 1)
      IN \A tok \in DOMAIN before \cap PaintedOver(frame[n]) :
           before[tok] = frame[n].before[tok] =>
             \E m \in Steps(frame[n], "wait") : m < u /\ frame[n].log[m].tok = tok

\* A waiting group issued an update while an entry it had painted over was
\* still in flight.
C15_Witness ==
  /\ act = "Render"
  /\ \E g \in Groups : g.wait /\ \E u \in Steps(g, "update") :
       \E tok \in PaintedOver(g) :
         /\ tok \in DOMAIN InFlightAfter(g, u - 1)
         /\ InFlightAfter(g, u - 1)[tok] = g.before[tok]
         /\ overlaps(g.log[u].rect, g.before[tok])

\* Every wait of the last pass and of the last rotation.
Waits ==
  UNION {{g.log[i] : i \in Steps(g, "wait")} : g \in Groups}
    \cup {pass.log[i] : i \in {i \in 1..Len(pass.log) : pass.log[i].k = "wait"}}

C17_OneUpdatePerRectangle ==
  \A g \in Groups :
    /\ Len(Updates(g)) = Len(g.rects)
    /\ \A i \in 1..Len(g.rects) :
         Updates(g)[i].rect = g.rects[i] /\ Updates(g)[i].mode = g.mode
    /\ \A u \in Steps(g, "update") :
         LET before == InFlightAfter(g, u - 1)
             s == g.log[u]
         IN IF s.ok
            THEN /\ DOMAIN s.inflight = DOMAIN before \cup {s.tok}
                 /\ s.inflight[s.tok] = s.rect
                 /\ \A tok \in DOMAIN before \ {s.tok} : s.inflight[tok] = before[tok]
            ELSE s.inflight = before

\* A pass of two groups in which the first update call failed and an update
\* call of the next group was made and succeeded.
C17_Witness ==
  /\ act = "Render"
  /\ Len(frame) = 2
  /\ ~Updates(frame[1])[1].ok
  /\ \E i \in 1..Len(Updates(frame[2])) : Updates(frame[2])[i].ok

----------------------------------------------------------------------------
\* The render engine against a tree that changes: a pane that holds a strip,
\* with a window after it that lies over the pane but not over the strip;
\* requests are queued, windows are closed, and the queue is drained.

Panes ==
  { \* the pane is a plain container
    (1 :> Container(<<2, 3>>, Screen)) @@ (2 :> Container(<<4>>, rect(0, 0, 40, 30)))
      @@ (3 :> Leaf(rect(10, 20, 30, 40))) @@ (4 :> Leaf(rect(0, 0, 40, 10))),
    \* the pane is a background layer
    (1 :> Container(<<2, 3>>, Screen)) @@ (2 :> Background(<<4>>, rect(0, 0, 40, 30)))
      @@ (3 :> Leaf(rect(10, 20, 30, 40))) @@ (4 :> Leaf(rect(0, 0, 40, 10))) }

InitTree ==
  /\ views \in Panes
  /\ chan = <<>>
  /\ bus = <<>>
  /\ rq = RenderQueue_new
  /\ updating = EmptyMap
  /\ pc = "render"
  /\ pass = NoPass
  /\ frame = NoFrame
  /\ act = "Init"
  /\ added = 0
  /\ ID_FEEDER = RootId + Cardinality(DOMAIN views)
  /\ callers = NoCallers
  /\ issued = <<>>
  /\ history = <<>>
  /\ context = NoContext
  /\ threads = NoThreads

\* Event::Close(ViewId::Frontlight): the window located at index is taken out
\* of the root's children, its subtree with it, and its rectangle is exposed.
Close(index) ==
  LET gone == child(RootId, index)
      r == views[gone].rect
      left == SubSeq(views[RootId].children, 1, index - 1)
                \o SubSeq(views[RootId].children, index + 1, len(RootId))
  IN /\ views' = [v \in Ids \ Subtree(gone) |->
                    IF v = RootId THEN [views[v] EXCEPT !.children = left] ELSE views[v]]
     /\ rq' = RenderQueue_add(rq, RenderData_expose(r, "Gui"))
     /\ frame' = NoFrame
     /\ act' = "Close"
     /\ UNCHANGED <<chan, bus, updating, pc, pass, added,
                    ID_FEEDER, callers, issued,
                 history, context, threads>>

NextTree ==
  \/ \E data \in GuiRequests : Add(data)
  \/ \E index \in 1..len(RootId) : Close(index)
  \/ Render

SpecTree == InitTree /\ [][NextTree]_vars

----------------------------------------------------------------------------
\* Claims about which views a render pass paints (SpecTree)

\* The ids a group holds rectangles for whose views are no longer in the tree.
Absent(g) == DOMAIN g.ids \ Ids
\* The pairs of the group without those queued against an absent id.
Remaining(g) == SelectSeq(g.pairs, LAMBDA p : p[1] = <<>> \/ p[1][1] \in Ids)
\* The render pass of the group over the remaining pairs alone.
Rerun(g) ==
  render(RootId, g.wait, IdsOf(Reverse(Remaining(g)), EmptyMap), <<>>,
         BgsOf(Reverse(Remaining(g))),
         [updating |-> g.before, fails |-> {}, answers |-> <<>>, calls |-> 0,
          log |-> <<>>, groups |-> <<>>])
\* The paints of a record in order: the view and the rectangle it was painted for.
Paints(log) ==
  LET ps == SelectSeq(log, LAMBDA s : s.k = "paint")
  IN [i \in 1..Len(ps) |-> <<ps[i].v, ps[i].rect>>]

\* C18: when a group holds rectangles queued against an id whose view has been
\* removed from the tree, the pass completes, no step of it concerns the
\* absent view, and its paints and its final rectangles, hence its update
\* calls, are those of the pass over the other pairs of the group alone.
C18_AbsentIdIsSkipped ==
  \A g \in Groups : Absent(g) # {} =>
    /\ \A i \in 1..Len(g.log) : g.log[i].v \notin Absent(g)
    /\ Paints(g.log) = Paints(Rerun(g).cx.log)
    /\ g.rects = Rerun(g).rects
    /\ [i \in 1..Len(Updates(g)) |-> Updates(g)[i].rect] = Rerun(g).rects

\* A repaint was queued against the window, the window was closed, and the
\* queue has been drained: the group that held the request painted something.
C18_Witness ==
  /\ act = "Render"
  /\ \E g \in Groups : Absent(g) # {} /\ g.rects # <<>>
  /\ \E g \in Groups : Absent(g) # {} /\ g.rects = <<>>

Range(q) == {q[i] : i \in 1..Len(q)}
\* The containers that are not background layers and were queued in the group.
QueuedContainers(g) == {c \in DOMAIN g.ids \cap Ids : len(c) > 0 /\ ~is_background(c)}
\* The background rectangles the group started from: the exposed ones.
Exposed(g) == Range(BgsOf(Reverse(g.pairs)))

\* C19 (as stated): a rectangle queued against a container that is not a
\* background layer is not among the background rectangles when a view
\* outside the container's subtree is visited.
C19_BgsForSubtreeOnly ==
  \A g \in Groups : \A c \in QueuedContainers(g) :
    \A i \in Steps(g, "visit") : g.log[i].v \notin Subtree(c) =>
      \A r \in Range(g.ids[c]) \ Exposed(g) : r \notin Range(g.log[i].bgs)

\* C19 (amended): a rectangle queued against a container that is not a
\* background layer is among the background rectangles from the container's
\* visit to the end of the pass, for its subtree and for every view visited
\* after it; a directly rendered view visited later that it intersects is
\* painted.
C19_BgsForRestOfPass ==
  \A g \in Groups : \A c \in QueuedContainers(g) :
    \A i, j \in Steps(g, "visit") : g.log[i].v = c =>
      \A r \in Range(g.ids[c]) :
        /\ j <= i => (r \in Range(g.log[j].bgs) => r \in Exposed(g))
        /\ j > i => /\ r \in Range(g.log[j].bgs)
                    /\ (len(g.log[j].v) = 0 \/ is_background(g.log[j].v))
                         /\ intersection(r, views[g.log[j].v].rect) # <<>>
                       => \E m \in Steps(g, "paint") : m > j /\ g.log[m].v = g.log[j].v

\* The pane was queued, and the window after it, which lies over the pane but
\* over none of the running rectangles and was not queued itself, has been
\* painted for the part of the pane's rectangle it covers.
C19_Witness ==
  /\ act = "Render"
  /\ \E g \in Groups : \E c \in QueuedContainers(g) :
       \E j \in Steps(g, "visit") :
         LET v == g.log[j].v
         IN /\ v \notin Subtree(c) /\ v \notin DOMAIN g.ids
            /\ Exposed(g) = {}
            /\ g.log[j].rects # <<>>
            /\ \A n \in 1..Len(g.log[j].rects) :
                 intersection(g.log[j].rects[n], views[v].rect) = <<>>
            /\ g.log[j + 1].k \in {"wait", "paint"}
            /\ \E m \in Steps(g, "paint") :
                 /\ g.log[m].v = v
                 /\ <<g.log[m].rect>> = intersection(g.ids[c][1], views[v].rect)

\* The step at which view v is visited has a paint of v after it.
PaintedAt(g, i) == \E m \in Steps(g, "paint") : m > i /\ g.log[m].v = g.log[i].v
\* Some rectangle of the list intersects the rectangle of view v.
Meets(rs, v) == \E n \in 1..Len(rs) : intersection(rs[n], views[v].rect) # <<>>

----------------------------------------------------------------------------
\* Claims about the order and the steps of a render pass

\* The views of the subtree of v, each before its children and the children
\* lowest first.
RECURSIVE PreOrder(_)
PreOrder(v) ==
  <<v>> \o Flatten([i \in 1..Len(views[v].children) |-> PreOrder(views[v].children[i])])
\* The views a group visited, in the order of the visits.
Visits(g) ==
  LET vs == SelectSeq(g.log, LAMBDA s : s.k = "visit")
  IN [i \in 1..Len(vs) |-> vs[i].v]
\* The last visit before step i of the group.
VisitBefore(g, i) ==
  CHOOSE j \in Steps(g, "visit") : j < i /\ \A m \in Steps(g, "visit") : m < i => m <= j

\* C21: a render pass visits the views in pre-order, the children of a view
\* lowest index first; the waits, the paint and the merges of a view come
\* after its visit and before the visit of any other view, and the updates
\* after every visit.
C21_PreOrderBottomToTop ==
  \A g \in Groups :
    /\ Visits(g) = PreOrder(RootId)
    /\ \A i \in 1..Len(g.log) :
         /\ g.log[i].k \in {"wait", "paint", "merge"} => g.log[i].v = g.log[VisitBefore(g, i)].v
         /\ g.log[i].k = "update" => \A j \in Steps(g, "visit") : j < i

\* A pass over a tree with a container among the root's children: the root
\* was painted and merged, then the container's child was visited before the
\* root's next child, and a view of each was painted.
C21_Witness ==
  /\ act = "Render"
  /\ \E g \in Groups :
       /\ Visits(g) = <<1, 2, 4, 3>>
       /\ views[2].children = <<4>>
       /\ \E i \in Steps(g, "paint"), j \in Steps(g, "merge") :
            g.log[i].v = RootId /\ g.log[j].v = RootId
       /\ \E i, j \in Steps(g, "paint") : g.log[i].v = 4 /\ g.log[j].v = 3 /\ i < j

\* C22: a group that does not wait calls the driver's wait for no token and
\* takes no entry out of the updating set; the set changes only at the
\* group's update calls that succeed, each putting its token in with the
\* rectangle updated and leaving the entries of the other tokens as they were.
C22_NoWaitGroupOnlyAdds ==
  \A g \in Groups : ~g.wait =>
    /\ Steps(g, "wait") = {}
    /\ \A i \in 1..Len(g.log) :
         LET before == InFlightAfter(g, i - 1)
             after == g.log[i].inflight
         IN /\ DOMAIN before \subseteq DOMAIN after
            /\ IF g.log[i].k = "update" /\ g.log[i].ok
               THEN /\ DOMAIN after = DOMAIN before \cup {g.log[i].tok}
                    /\ after[g.log[i].tok] = g.log[i].rect
                    /\ \A tok \in DOMAIN before \ {g.log[i].tok} : after[tok] = before[tok]
               ELSE after = before

\* A group that does not wait painted a view over an entry in flight, left
\* the entry where it was, and its update call put a further token in the set.
C22_Witness ==
  /\ act = "Render"
  /\ \E g \in Groups :
       /\ ~g.wait
       /\ \E i \in Steps(g, "paint") : \E tok \in DOMAIN g.before :
            /\ overlaps(g.log[i].rr, g.before[tok])
            /\ tok \in DOMAIN updating /\ updating[tok] = g.before[tok]
       /\ \E u \in Steps(g, "update") : g.log[u].ok /\ g.log[u].tok \notin DOMAIN g.before

\* C23: a step of process_render_queue leaves the render queue empty and has
\* drained every group that was in the queue once, with the pairs it held,
\* and nothing else, whether its waits and update calls succeeded or failed.
C23_QueueDrainedOnce ==
  [][act' = "Render" =>
       /\ rq' = RenderQueue_new
       /\ Len(frame') = Cardinality(DOMAIN rq)
       /\ \A key \in DOMAIN rq :
            Cardinality({n \in 1..Len(frame') :
                           /\ <<frame'[n].mode, frame'[n].wait>> = key
                           /\ frame'[n].pairs = rq[key]}) = 1]_vars

\* A queue of two groups has been drained in a pass in which an update call
\* failed, the waiting group second.
C23_Witness ==
  /\ act = "Render"
  /\ rq = RenderQueue_new
  /\ Len(frame) = 2
  /\ ~frame[1].wait /\ frame[2].wait
  /\ \E g \in Groups : \E u \in Steps(g, "update") : ~g.log[u].ok

----------------------------------------------------------------------------
\* The id feeder (ID_FEEDER): threads call IdFeeder::next, each call an
\* invocation, the atomic addition, and the return of the value fetched.

InitFeeder ==
  /\ views = EmptyMap
  /\ chan = <<>>
  /\ bus = <<>>
  /\ rq = RenderQueue_new
  /\ updating = EmptyMap
  /\ pc = "idle"
  /\ pass = NoPass
  /\ frame = NoFrame
  /\ act = "Init"
  /\ added = 0
  /\ ID_FEEDER = RootId
  /\ callers = NoCallers
  /\ issued = <<>>
  /\ history = <<>>
  /\ context = NoContext
  /\ threads = NoThreads

fetch_same(value, val) == value
\* AtomicU64::fetch_add(val, Ordering::Relaxed): the new value of the atomic;
\* it wraps at 2^64, which the calls of a run do not reach.
fetch_add(value, val) == value + val

\* One step of thread t in ID_FEEDER.next(): it enters the call, or performs
\* self.0.fetch_add(1, Ordering::Relaxed), one atomic read-modify-write, or
\* returns the value it fetched.
IdFeeder_next(t) ==
  /\ CASE callers[t].pc = "idle" ->
            /\ Len(SelectSeq(issued, LAMBDA e : e.k = "call")) < MaxIds
            /\ callers' = [callers EXCEPT ![t].pc = "called"]
            /\ issued' = Append(issued, [k |-> "call", thread |-> t, id |-> 0])
            /\ UNCHANGED ID_FEEDER
       [] callers[t].pc = "called" ->
            /\ callers' = [callers EXCEPT ![t] = [pc |-> "fetched", id |-> ID_FEEDER]]
            /\ ID_FEEDER' = fetch_add(ID_FEEDER, 1)
            /\ issued' = Append(issued, [k |-> "fetch", thread |-> t, id |-> ID_FEEDER])
       [] callers[t].pc = "fetched" ->
            /\ callers' = [callers EXCEPT ![t] = [pc |-> "idle", id |-> 0]]
            /\ issued' = Append(issued, [k |-> "ret", thread |-> t, id |-> callers[t].id])
            /\ UNCHANGED ID_FEEDER
  /\ act' = "IdFeeder_next"
  /\ UNCHANGED <<views, chan, bus, rq, updating, pc, pass, frame, added,
                 history, context, threads>>

NextFeeder == \E t \in DOMAIN callers : IdFeeder_next(t)

SpecFeeder == InitFeeder /\ [][NextFeeder]_vars

\* The events of kind k in the record of the calls.
Events(k) == {i \in 1..Len(issued) : issued[i].k = k}
\* The invocation of the call that returned at event j.
CallOf(j) ==
  CHOOSE i \in Events("call") :
    /\ i < j /\ issued[i].thread = issued[j].thread
    /\ \A m \in Events("call") : (m < j /\ issued[m].thread = issued[j].thread) => m <= i

\* C24: no identifier is returned twice; the identifiers are fetched in
\* strictly increasing order, the atomic staying above all of them; and a call
\* returns an identifier strictly greater than that of every call that had
\* returned when it was invoked, whichever threads made the calls.
C24_IdsIncreaseNeverRepeat ==
  /\ \A i, j \in Events("ret") : i # j => issued[i].id # issued[j].id
  /\ \A i, j \in Events("fetch") : i < j => issued[i].id < issued[j].id
  /\ \A i \in Events("fetch") : issued[i].id < ID_FEEDER
  /\ \A i, j \in Events("ret") : i < CallOf(j) => issued[i].id < issued[j].id

\* Two threads were inside next at once and the one that fetched first
\* returned last; a call made after both returned a greater identifier.
C24_Witness ==
  \E i, j, m \in Events("ret") :
    /\ i < j /\ j < CallOf(m)
    /\ issued[i].thread # issued[j].thread
    /\ issued[j].id < issued[i].id
    /\ CallOf(j) < i


----------------------------------------------------------------------------
\* Claims about the Close arm of the main loop (Spec)

\* C25: handling Close(id) for an id that no child of the root carries changes
\* nothing: the tree, the render queue and the updating set stay as they were,
\* and the arm completes without an error.
C25_CloseOfAbsentIdIsNoOp ==
  [][(/\ act' = "RecvClose"
      /\ \A i \in 1..len(RootId) : child(RootId, i) # Head(chan).id)
     => /\ UNCHANGED <<views, rq, updating>>
        /\ pass'.evt = "Close"
        /\ ~pass'.captured]_vars

\* A Close for the id of a view that an earlier Close removed is handled while
\* requests are queued and updates are in flight.
C25_Witness ==
  /\ act = "RecvClose"
  /\ ~pass.captured
  /\ pass.out # <<>>
  /\ pass.out[1] \notin Ids
  /\ rq # RenderQueue_new
  /\ updating # EmptyMap


----------------------------------------------------------------------------
\* Claims about the render queue (SpecRender)

\* The queue q after one more request, as the claim describes it: the pair is
\* the last of the group keyed (mode, wait), which exists afterwards, and every
\* pair queued before is where it was.
Appended(q, q2, id, r, mode, wait) ==
  LET key == <<mode, wait>>
  IN /\ DOMAIN q2 = DOMAIN q \cup {key}
     /\ q2[key] = (IF key \in DOMAIN q THEN q[key] ELSE <<>>) \o << <<id, r>> >>
     /\ \A k \in DOMAIN q \ {key} : q2[k] = q[k]

\* C26: RenderQueue.add appends the pair (id, rectangle) at the end of the
\* group keyed (mode, wait), creating the group when it is absent, and leaves
\* every other group and every earlier entry unchanged; a request built with
\* new or expose has wait = true, one built with no_wait has wait = false, and
\* only expose yields an absent id.
C26_AddAppendsToItsGroup ==
  [][act' = "Add" =>
       /\ \E data \in Requests :
            Appended(rq, rq', data.id, data.rect, data.mode, data.wait)
       /\ \A data \in Requests, v \in Ids :
            /\ RenderData_new(v, data.rect, data.mode)
                 = [id |-> <<v>>, rect |-> data.rect, mode |-> data.mode, wait |-> TRUE]
            /\ RenderData_no_wait(v, data.rect, data.mode)
                 = [id |-> <<v>>, rect |-> data.rect, mode |-> data.mode, wait |-> FALSE]
            /\ RenderData_expose(data.rect, data.mode)
                 = [id |-> <<>>, rect |-> data.rect, mode |-> data.mode, wait |-> TRUE]]_vars

\* A request without wait has been appended to the group an earlier one made.
C26_Witness ==
  /\ act = "Add"
  /\ <<"Gui", FALSE>> \in DOMAIN rq
  /\ Len(rq[<<"Gui", FALSE>>]) = 2
  /\ rq[<<"Gui", FALSE>>][1] # rq[<<"Gui", FALSE>>][2]


----------------------------------------------------------------------------
\* Claims about the paints of a view (SpecRender)

\* The steps of kind k that the group's record holds for view v.
StepsOf(g, k, v) == {m \in Steps(g, k) : g.log[m].v = v}
\* The candidates of the view visited at step i of the group.
CandidatesAt(g, i) == Candidates(g.log[i].v, g.ids, g.log[i].rects, g.log[i].bgs)

\* C27: a directly rendered view whose render_rect is the default one is painted
\* at most once in a render pass, for its first candidate only, and produces
\* exactly one rectangle, its own, however many rectangles are queued for its
\* id or intersect it.
C27_DefaultViewPaintedOnce ==
  \A g \in Groups : \A i \in Steps(g, "visit") :
    LET v == g.log[i].v
    IN (DirectlyRendered(v) /\ ~views[v].partial) =>
         /\ Cardinality(StepsOf(g, "paint", v)) <= 1
         /\ Cardinality(StepsOf(g, "paint", v)) = IF CandidatesAt(g, i) = <<>> THEN 0 ELSE 1
         /\ \A m \in StepsOf(g, "paint", v) : g.log[m].rect = Head(CandidatesAt(g, i))
         /\ Cardinality(StepsOf(g, "merge", v)) = Cardinality(StepsOf(g, "paint", v))
         /\ \A m \in StepsOf(g, "merge", v) : g.log[m].rect = views[v].rect

\* A view with the default hook met two rectangles, running or background, was
\* painted for the first, a part of its own rectangle, and produced the whole.
C27_Witness ==
  \E g \in Groups : \E i \in Steps(g, "visit") :
    LET v == g.log[i].v
    IN /\ DirectlyRendered(v)
       /\ ~views[v].partial
       /\ Len(CandidatesAt(g, i)) >= 2
       /\ Head(CandidatesAt(g, i)) # views[v].rect
       /\ \E m \in StepsOf(g, "paint", v) : g.log[m].rect # g.log[m].rr
       /\ StepsOf(g, "merge", v) # {}


\* The rectangles the group's record holds for view v in the steps of kind k,
\* in the order of the record: field "rect" of each, or field "rr".
OfView(g, k, v) == SelectSeq(g.log, LAMBDA s : s.k = k /\ s.v = v)
\* The tokens waited on right before step m of the group.
WaitedBefore(g, m) == {g.log[n].tok : n \in (Prior(g, m) + 1)..(m - 1)}

\* C28 (as stated): the rectangle handed to the paint routine of a view is the
\* rectangle that was checked against the updating set and that is recorded as
\* the produced rectangle of the view.
C28_PaintedIsCheckedAndProduced ==
  \A g \in Groups : \A m \in Steps(g, "paint") : g.log[m].rect = g.log[m].rr

\* C28 (amended): the paint routine of a view is handed the candidate
\* rectangle itself, while the rectangle checked against the updating set and
\* recorded as produced is the answer of render_rect for that candidate: the
\* candidate for a view that can repaint a part of itself, the whole rectangle
\* of the view for one with the default hook.
C28_PaintGetsCandidate ==
  \A g \in Groups : \A m \in Steps(g, "paint") :
    LET s == g.log[m]
        produced == IF views[s.v].partial THEN s.rect ELSE views[s.v].rect
    IN /\ s.rect \in Range(CandidatesAt(g, VisitBefore(g, m)))
       /\ s.rr = produced
       /\ g.wait =>
            WaitedBefore(g, m) =
              {tok \in DOMAIN InFlightAfter(g, Prior(g, m)) :
                 overlaps(produced, InFlightAfter(g, Prior(g, m))[tok])}
       /\ Len(OfView(g, "merge", s.v)) = Len(OfView(g, "paint", s.v))
       /\ \A n \in 1..Len(OfView(g, "paint", s.v)) :
            OfView(g, "merge", s.v)[n].rect = OfView(g, "paint", s.v)[n].rr

\* A view with the default hook was painted for a part of its rectangle after
\* a wait on an update in flight that the part does not overlap but the whole
\* rectangle does, and the whole rectangle was merged.
C28_Witness ==
  \E g \in Groups : \E m \in Steps(g, "paint") :
    /\ g.log[m].rect # g.log[m].rr
    /\ g.log[m - 1].k = "wait"
    /\ ~overlaps(g.log[m].rect, g.log[m - 1].rect)
    /\ \E n \in Steps(g, "merge") : n > m /\ g.log[n].rect = g.log[m].rr


----------------------------------------------------------------------------
\* Claims about the area the running rectangles cover (SpecRender)

\* The steps of the group's record that note the running rectangles.
Noting(g) == Steps(g, "visit") \cup Steps(g, "paint") \cup Steps(g, "merge")

\* Some entry of the list contains rectangle r.
Holds(rs, r) == \E n \in 1..Len(rs) : contains(rs[n], r)

\* C29: a rectangle produced by a paint is contained in some entry of the
\* running rectangles from its merge to the end of the pass: no later absorb,
\* pop or discard takes area away from the list.
C29_ProducedStaysCovered ==
  \A g \in Groups : \A i \in Steps(g, "merge") :
    /\ \A j \in Noting(g) : j >= i => Holds(g.log[j].rects, g.log[i].rect)
    /\ Holds(g.rects, g.log[i].rect)

\* A produced rectangle was merged, a later merge popped an entry of the list,
\* and the rectangle itself is not an entry of the final list.
C29_Witness ==
  \E g \in Groups : \E i, j \in Steps(g, "merge") :
    /\ i < j
    /\ Len(g.log[j].rects) < Len(g.log[i].rects)
    /\ g.log[i].rect \notin Range(g.rects)

\* C30: after every merge step of a render pass the last two entries of the
\* running rectangles, when there are two, do not touch.
C30_LastTwoApart ==
  \A g \in Groups : \A i \in Steps(g, "merge") :
    Len(g.log[i].rects) >= 2 =>
      ~touches(Last(g.log[i].rects), g.log[i].rects[Len(g.log[i].rects) - 1])

\* A merge absorbed a produced rectangle that touched the last entry of a list
\* of two entries or more, and the grown entry does not touch the one before.
C30_Witness ==
  \E g \in Groups : \E j \in Steps(g, "merge") :
    /\ j - 1 \in Noting(g)
    /\ Len(g.log[j - 1].rects) >= 2
    /\ touches(g.log[j].rect, Last(g.log[j - 1].rects))
    /\ Len(g.log[j].rects) >= 2
    /\ Last(g.log[j].rects) = absorb(Last(g.log[j - 1].rects), g.log[j].rect)


----------------------------------------------------------------------------
\* Claims about the events pushed during a dispatch pass (SpecDispatch)

\* The invocations of an own handler that accepted event e.
Takers(e) == {i \in 1..Len(Log) : Log[i].k = "h" /\ Log[i].e = e /\ Log[i].ret}
\* The places of event e on the bus the pass hands back.
OnRootBus(e) == {j \in 1..Len(pass.out) : pass.out[j] = e}
\* The invocations of an own handler that pushed event e.
Pushers(e) == {i \in 1..Len(Log) : Log[i].k = "h" /\ InSeq(e, Log[i].out)}

\* C31: no event pushed on a bus during a dispatch pass is lost or duplicated:
\* each one, whether its pusher accepted the event it was handling or not, is
\* either consumed by the own handler of exactly one ancestor of the pusher or
\* is exactly once on the bus handed to the outermost handle_event call.
C31_PushedConsumedOnceOrOnRootBus ==
  \A e \in Pushed :
    /\ Cardinality(Takers(e)) + Cardinality(OnRootBus(e)) = 1
    /\ \A i \in Takers(e) : Log[i].v \in Range(AncestorPath(e.src))

\* One pass in which a handler that did not accept what it handled pushed an
\* event an ancestor consumed, and another pushed event reached the root bus.
C31_Witness ==
  /\ act = "Dispatch"
  /\ \E e \in Pushed :
       /\ Takers(e) # {}
       /\ \E i \in Pushers(e) : ~Log[i].ret
  /\ \E e \in Pushed :
       /\ OnRootBus(e) # {}
       /\ \E i \in Pushers(e) : Log[i].ret


----------------------------------------------------------------------------
\* Claims about the updating set between passes (SpecDriver)

\* The tokens a wait succeeded on in the groups fr from the one numbered from
\* on, or in the record ps of a rotation.
WaitedWell(fr, from, ps) ==
  UNION {{fr[m].log[i].tok : i \in {i \in Steps(fr[m], "wait") : fr[m].log[i].ok}} :
           m \in from..Len(fr)}
    \cup {ps.log[i].tok : i \in {i \in 1..Len(ps.log) : ps.log[i].k = "wait" /\ ps.log[i].ok}}

\* C33: after process_render_queue every rectangle for which an update call
\* returned a token is recorded in the updating set under that token, and it
\* stays recorded until a wait on that token succeeds: no rectangle in flight
\* leaves the set without a wait.
C33_InFlightKeptUntilWaited ==
  [][/\ act' = "Render" =>
          \A n \in 1..Len(frame') : \A u \in Steps(frame'[n], "update") :
            frame'[n].log[u].ok =>
              \/ /\ frame'[n].log[u].tok \in DOMAIN updating'
                 /\ updating'[frame'[n].log[u].tok] = frame'[n].log[u].rect
              \/ frame'[n].log[u].tok \in WaitedWell(frame', n + 1, NoPass)
     /\ \A tok \in DOMAIN updating :
          (tok \notin DOMAIN updating' \/ updating'[tok] # updating[tok]) =>
            tok \in WaitedWell(IF act' = "Render" THEN frame' ELSE <<>>, 1,
                               IF act' = "Rotate" THEN pass' ELSE NoPass)]_vars


----------------------------------------------------------------------------
\* The main loop with its threads at their pace: the clock thread sleeps
\* CLOCK_REFRESH_INTERVAL between two sends and the touch thread forwards what
\* the loop itself polls, one device event for each turn of the outer loop, so
\* a worker sends again only when what it sent before has been received.

\* thread::sleep(CLOCK_REFRESH_INTERVAL) and the poll of the outer loop: no
\* event of a worker is still waiting in the channel.
Paced == \A n \in 1..Len(chan) : chan[n].from # "worker"

NextLive ==
  \/ Paced /\ \E name \in RootEvents : Send(name)
  \/ Paced /\ \E id \in CloseIds : SendClose(id)
  \/ Recv
  \/ RecvClose
  \/ Timeout
  \/ LoopRender
  \/ SendBus
  \/ FlushDone

\* ENABLED <<Recv>>_vars and ENABLED <<LoopRender>>_vars: the dispatch pass and
\* process_render_queue are total, so each arm is enabled by its guard alone.
RecvReady == pc = "recv" /\ chan # <<>> /\ Head(chan).name \notin ArmEvents
RenderReady == pc = "render"

\* The loop's thread keeps running: weak fairness of each of its steps, that
\* of Recv and of LoopRender written out with the guards as their ENABLED.
\* rx.recv_timeout(20 ms) does not lose every race against threads that sleep
\* for seconds before they send: strong fairness of Timeout.
LoopFair ==
  /\ ([]<>~RecvReady \/ []<><<Recv>>_vars)
  /\ ([]<>~RenderReady \/ []<><<LoopRender>>_vars)
  /\ WF_vars(RecvClose)
  /\ WF_vars(SendBus)
  /\ WF_vars(FlushDone)
  /\ SF_vars(Timeout)

SpecLive == Init /\ [][NextLive]_vars /\ LoopFair

----------------------------------------------------------------------------
\* Buttons under the finger: one pass over a tree that holds RoundedButtons.

\* RoundedButton::new: no children, not active.
RoundedButton_new(r, event) ==
  [children |-> <<>>, rect |-> r, is_background |-> FALSE, might_skip |-> {},
   kind |-> "RoundedButton", partial |-> FALSE, event |-> event, active |-> FALSE]

\* The Notification that Notification::new returns: no children.
Notification_new(view_id, r) ==
  [children |-> <<>>, rect |-> r, is_background |-> FALSE, might_skip |-> {},
   kind |-> "Notification", partial |-> FALSE, view_id |-> view_id]

\* ViewId::MessageNotif, the view id of the notifications of Event::Notify.
MessageNotif == 0

\* A button alone; a button under a notification that covers a part of it; two
\* buttons that overlap; a button above a notification; two buttons apart, one
\* of them in a container.
ButtonTrees ==
  { <<Container(<<2>>, Screen), RoundedButton_new(rect(0, 0, 20, 20), "Page")>>,
    <<Container(<<2, 3>>, Screen), RoundedButton_new(rect(0, 0, 20, 20), "Page"),
      Notification_new(MessageNotif, rect(10, 10, 30, 30))>>,
    <<Container(<<2, 3>>, Screen), RoundedButton_new(rect(0, 0, 20, 20), "Page"),
      RoundedButton_new(rect(10, 10, 30, 30), "ToggleNear")>>,
    <<Container(<<2, 3>>, Screen), Notification_new(MessageNotif, rect(10, 10, 30, 30)),
      RoundedButton_new(rect(0, 0, 20, 20), "Page")>>,
    <<Container(<<2, 4>>, Screen), Container(<<3>>, rect(0, 0, 20, 40)),
      RoundedButton_new(rect(0, 0, 20, 20), "Page"),
      RoundedButton_new(rect(20, 20, 40, 40), "ToggleNear")>> }

InitButton ==
  /\ views \in ButtonTrees
  /\ chan = <<>>
  /\ bus = <<>>
  /\ rq = RenderQueue_new
  /\ updating = EmptyMap
  /\ pc = "idle"
  /\ pass = NoPass
  /\ frame = NoFrame
  /\ act = "Init"
  /\ added = 0
  /\ ID_FEEDER = RootId + Cardinality(DOMAIN views)
  /\ callers = NoCallers
  /\ issued = <<>>
  /\ history = <<>>
  /\ context = NoContext
  /\ threads = NoThreads

NextButton ==
  \/ \E name \in TouchEvents : Dispatch(name)
  \/ Settle

SpecButton == InitButton /\ [][NextButton]_vars

Buttons == {v \in Ids : views[v].kind = "RoundedButton"}
\* The own handler of v ran in pass p, and what it returned.
Ran(p, v) == \E i \in 1..Len(p.log) : p.log[i].k = "h" /\ p.log[i].v = v
Answer(p, v) ==
  p.log[CHOOSE i \in 1..Len(p.log) : p.log[i].k = "h" /\ p.log[i].v = v].ret
\* The repaints of view v that pass p added to the render queue.
Repaints(p, v) == SelectSeq(p.adds, LAMBDA d : d.id = <<v>>)
Status(p) == IF IsFinger(p.evt) THEN Touches[p.evt].status ELSE ""
Inside(p, v) == p.evt \in TouchEvents /\ includes(views[v].rect, Touches[p.evt].position)

\* C35: a RoundedButton's active flag becomes true only on a Finger Down inside
\* its rectangle and false only on a Finger Up received while active; each of
\* the two captures the event and queues exactly one waiting repaint of the
\* button's id and full rectangle, Fast on press and Gui on release; a Finger
\* Up while inactive or a Finger Down outside the rectangle is not captured,
\* queues nothing and leaves active unchanged.
C35_ButtonPressAndRelease ==
  [][act' = "Dispatch" =>
       \A v \in Buttons :
         /\ (views'[v].active /\ ~views[v].active) =>
              Ran(pass', v) /\ Status(pass') = "Down" /\ Inside(pass', v)
         /\ (~views'[v].active /\ views[v].active) =>
              Ran(pass', v) /\ Status(pass') = "Up"
         /\ (Ran(pass', v) /\ Status(pass') = "Down" /\ Inside(pass', v)) =>
              /\ views'[v].active
              /\ Answer(pass', v)
              /\ Repaints(pass', v) = <<RenderData_new(v, views[v].rect, "Fast")>>
         /\ (Ran(pass', v) /\ Status(pass') = "Up" /\ views[v].active) =>
              /\ ~views'[v].active
              /\ Answer(pass', v)
              /\ Repaints(pass', v) = <<RenderData_new(v, views[v].rect, "Gui")>>
         /\ (/\ Ran(pass', v)
             /\ \/ Status(pass') = "Up" /\ ~views[v].active
                \/ Status(pass') = "Down" /\ ~Inside(pass', v)) =>
              /\ ~Answer(pass', v)
              /\ Repaints(pass', v) = <<>>
              /\ views'[v].active = views[v].active]_vars

\* A button has just been released by an Up outside its rectangle: its handler
\* captured the event and asked for one Gui repaint.
C35_Witness ==
  /\ act = "Dispatch"
  /\ pass.evt = "Up4"
  /\ \E v \in Buttons :
       /\ Ran(pass, v) /\ Answer(pass, v) /\ ~views[v].active
       /\ Repaints(pass, v) = <<RenderData_new(v, views[v].rect, "Gui")>>

\* C36: after a Finger Up event has been dispatched through a tree with
\* handle_event, no RoundedButton of the tree remains active.
C36_NoButtonActiveAfterUp ==
  (act = "Dispatch" /\ Status(pass) = "Up") => \A v \in Buttons : ~views[v].active

----------------------------------------------------------------------------
\* The arms of the main loop that change the view on screen, post
\* notifications and switch the wifi.

\* The history holds at most MaxHistory views: nothing asks for another view
\* to be opened beyond that.
MaxHistory == 2

\* A view that fills the screen: Home, a Reader, or an application that
\* Select(Launch) starts. "is" is the type that view.is::<Home>() looks at.
FullView(is, children) ==
  [children |-> children, rect |-> Screen, is_background |-> FALSE, might_skip |-> {},
   kind |-> "Ignore", partial |-> FALSE, is |-> is]
Home_new == <<FullView("Home", <<2>>), View(<<>>, rect(0, 0, 40, 20), FALSE, {}, "Capture")>>
Reader_new == <<FullView("Reader", <<2>>), View(<<>>, rect(0, 20, 40, 40), FALSE, {}, "Emit")>>
Sketch_new == <<FullView("Sketch", <<2>>), Leaf(rect(0, 0, 40, 40))>>
\* view.is::<Home>()
is_Home(tree) == tree[RootId].is = "Home"

\* The notifications among the children of the root, lowest first.
Notifications(tree) ==
  SelectSeq(tree[RootId].children, LAMBDA c : tree[c].kind = "Notification")

\* transfer_notifications(view1, view2, ..): the notifications of view1 become
\* children of view2, above those it has. Left is view1 and Taken view2 after it.
Left(view1) ==
  [v \in DOMAIN view1 \ Range(Notifications(view1)) |->
     IF v = RootId
     THEN [view1[v] EXCEPT
             !.children = SelectSeq(@, LAMBDA c : view1[c].kind # "Notification")]
     ELSE view1[v]]
Taken(view1, view2) ==
  [v \in DOMAIN view2 \cup Range(Notifications(view1)) |->
     IF v = RootId
     THEN [view2[v] EXCEPT !.children = @ \o Notifications(view1)]
     ELSE IF v \in DOMAIN view2 THEN view2[v] ELSE view1[v]]

\* How many events named name wait in the channel.
WaitingIn(c, name) == Cardinality({n \in 1..Len(c) : c[n].name = name})
Waiting(name) == WaitingIn(chan, name)

\* The wifi is not switched on again before the NetUp of the time before has
\* arrived.
\* A view or the device sends one of the events that have an arm of their own,
\* once the loop has taken the one before: the loop handles one event at a
\* time, so the arms run in the same order whether or not the senders wait.
SendApp(evt) ==
  /\ Paced
  /\ evt.name \in {"Open", "Launch"} =>
       Len(history) + Waiting("Open") + Waiting("Launch") < MaxHistory
  /\ evt.name = "Notify" => ID_FEEDER + Waiting("Notify") <= MaxIds
  /\ (evt.name = "SetWifi" /\ evt.enable) =>
       threads["NetUp"] + Waiting("NetUp") + Waiting("SetWifi") = 0
  /\ chan' = Append(chan, evt)
  /\ act' = "SendApp"
  /\ UNCHANGED <<views, bus, rq, updating, pc, pass, frame, added,
                 ID_FEEDER, callers, issued,
                 history, context, threads>>

AppEvents ==
  {Sent(name, "worker") : name \in {"Open", "Launch", "Back", "AddDocument"}}
    \cup {[name |-> "SetWifi", from |-> "worker", enable |-> b] : b \in BOOLEAN}

\* The view the loop goes on with when the next one cannot be made.
KeepCurrent(v, current) == current
\* view = v;
Popped(v, current) == v

\* Event::Open(info) => { .. }, Event::Select(EntryId::Launch(app_cmd)) => { .. }:
\* Reader::new may return None, and the view on screen is then told so.
RecvOpen ==
  /\ pc = "recv"
  /\ chan # <<>>
  /\ Head(chan).name \in {"Open", "Launch"}
  /\ \E made \in BOOLEAN :
       /\ Head(chan).name = "Launch" => made
       /\ IF made
          THEN /\ history' = Append(history, Left(views))
               /\ views' = Taken(views, IF Head(chan).name = "Open"
                                        THEN Reader_new ELSE Sketch_new)
               /\ pass' = NoPass
               /\ UNCHANGED <<bus, rq>>
          ELSE /\ pass' = DispatchPass("Invalid", Head(chan).from, bus, rq)
               /\ bus' = pass'.bus
               /\ rq' = pass'.rq
               /\ UNCHANGED <<views, history>>
  /\ chan' = Tail(chan)
  /\ act' = "RecvOpen"
  /\ UNCHANGED <<updating, pc, frame, added, ID_FEEDER, callers, issued,
                 context, threads>>

\* Event::Back => { if let Some(v) = history.pop() { view = v; .. } }: the
\* Reseed that follows goes to the handler of the view alone, which no root
\* of the model answers.
RecvBack ==
  /\ pc = "recv"
  /\ chan # <<>>
  /\ Head(chan).name = "Back"
  /\ IF history # <<>>
     THEN /\ views' = Popped(Last(history), views)
          /\ history' = Front(history)
     ELSE UNCHANGED <<views, history>>
  /\ pass' = NoPass
  /\ chan' = Tail(chan)
  /\ act' = "RecvBack"
  /\ UNCHANGED <<bus, rq, updating, pc, frame, added, ID_FEEDER, callers, issued,
                 context, threads>>

\* The rectangle of the notification made with the id given: the index that
\* places it counts the notifications as the feeder counts their ids.
NotificationRect(id) == rect(20, 10 * (id % 3), 40, 10 * (id % 3) + 10)

\* Event::Notify(msg) => { let notif = Notification::new(ViewId::MessageNotif, ..);
\* view.children_mut().push(..) }: Notification::new takes the next id, spawns
\* the thread that will send Close(view_id) and asks for its own painting.
RecvNotify ==
  /\ pc = "recv"
  /\ chan # <<>>
  /\ Head(chan).name = "Notify"
  /\ ID_FEEDER' = fetch_add(ID_FEEDER, 1)
  /\ threads' = [threads EXCEPT !["Close"] = @ + 1]
  /\ rq' = RenderQueue_add(rq, RenderData_new(ID_FEEDER, NotificationRect(ID_FEEDER), "Gui"))
  /\ views' = [v \in DOMAIN views \cup {ID_FEEDER} |->
                 IF v = RootId THEN [views[v] EXCEPT !.children = Append(@, ID_FEEDER)]
                 ELSE IF v = ID_FEEDER
                      THEN Notification_new(MessageNotif, NotificationRect(ID_FEEDER))
                      ELSE views[v]]
  /\ pass' = NoPass
  /\ chan' = Tail(chan)
  /\ act' = "RecvNotify"
  /\ UNCHANGED <<bus, updating, pc, frame, added, callers, issued, history, context>>

\* thread::sleep(..); hub2.send(Event::Close(view_id)).ok() and
\* thread::sleep(..); tx2.send(Event::Device(DeviceEvent::NetUp)).ok(): a thread
\* that sleeps sends its one event and ends.
ThreadSend(name) ==
  /\ threads[name] > 0
  /\ threads' = [threads EXCEPT ![name] = @ - 1]
  /\ chan' = Append(chan, IF name = "Close"
                          THEN [name |-> "Close", from |-> "timer", id |-> MessageNotif]
                          ELSE Sent(name, "timer"))
  /\ act' = "ThreadSend"
  /\ UNCHANGED <<views, bus, rq, updating, pc, pass, frame, added,
                 ID_FEEDER, callers, issued, history, context>>

\* Event::SetWifi(enable) => { if context.settings.wifi != enable { .. } }
RecvSetWifi ==
  /\ pc = "recv"
  /\ chan # <<>>
  /\ Head(chan).name = "SetWifi"
  /\ IF context.wifi # Head(chan).enable
     THEN /\ context' = [context EXCEPT !.wifi = Head(chan).enable]
          /\ IF Head(chan).enable
             THEN threads' = [threads EXCEPT !["NetUp"] = @ + 1]
             ELSE UNCHANGED threads
     ELSE UNCHANGED <<context, threads>>
  /\ pass' = NoPass
  /\ chan' = Tail(chan)
  /\ act' = "RecvSetWifi"
  /\ UNCHANGED <<views, bus, rq, updating, pc, frame, added, ID_FEEDER, callers, issued,
                 history>>

\* Event::AddDocument(..) and Event::Device(DeviceEvent::NetUp): if view.is::<Home>()
\* { view.handle_event(..) } else { history[0].handle_event(..) }; indexing an
\* empty history panics. The handler of Home is run, alone, and the record of
\* the pass holds that one call.
RecvForHome ==
  /\ pc = "recv"
  /\ chan # <<>>
  /\ Head(chan).name \in {"NetUp", "AddDocument"}
  /\ IF is_Home(views) \/ history # <<>>
     THEN /\ pass' = [NoPass EXCEPT
                        !.evt = Head(chan).name, !.from = Head(chan).from,
                        !.log = <<Entry("h", RootId, Original(Head(chan).name), FALSE,
                                        <<>>, <<>>, [adds |-> <<>>])>>]
          /\ UNCHANGED pc
     ELSE /\ pass' = [NoPass EXCEPT !.evt = Head(chan).name, !.from = Head(chan).from]
          /\ pc' = "panic"
  /\ chan' = Tail(chan)
  /\ act' = "RecvForHome"
  /\ UNCHANGED <<views, bus, rq, updating, frame, added, ID_FEEDER, callers, issued,
                 history, context, threads>>

InitApp ==
  /\ views = Home_new
  /\ chan = <<>>
  /\ bus = <<>>
  /\ rq = RenderQueue_new
  /\ updating = EmptyMap
  /\ pc = "recv"
  /\ pass = NoPass
  /\ frame = NoFrame
  /\ act = "Init"
  /\ added = 0
  /\ ID_FEEDER = RootId + Cardinality(DOMAIN views)
  /\ callers = NoCallers
  /\ issued = <<>>
  /\ history = <<>>
  /\ context = NoContext
  /\ threads = NoThreads

\* rx.recv_timeout(..) is Err; process_render_queue(..) then takes everything
\* out of the queue, and the bus, on which no arm of this part pushes, has
\* nothing to send. What is painted is the matter of the render pass above.
LoopTail ==
  /\ pc = "recv"
  /\ chan = <<>>
  /\ rq # RenderQueue_new
  /\ rq' = RenderQueue_new
  /\ pass' = NoPass
  /\ act' = "LoopTail"
  /\ UNCHANGED <<views, chan, bus, updating, pc, frame, added,
                 ID_FEEDER, callers, issued, history, context, threads>>

\* The inner loop of main, while let Ok(evt) = rx.recv_timeout(..) { match evt
\* { .. } }, with the views on screen and the wifi; what the loop does once the
\* channel is empty is the matter of Next above.
NextApp ==
  \/ \E evt \in AppEvents : SendApp(evt)
  \/ ThreadSend("NetUp")
  \/ RecvOpen
  \/ RecvBack
  \/ RecvSetWifi
  \/ RecvForHome

SpecApp == InitApp /\ [][NextApp]_vars

\* The same loop with the notifications and their timers.
NotifyEvents == {Sent(name, "worker") : name \in {"Notify", "Open", "Back"}}

Arms == RecvNotify \/ RecvClose \/ RecvOpen \/ RecvBack

NextNotify ==
  \/ \E evt \in NotifyEvents : SendApp(evt)
  \/ ThreadSend("Close")
  \/ RecvNotify
  \/ RecvClose
  \/ RecvOpen
  \/ RecvBack
  \/ LoopTail

\* The loop's thread keeps running: it takes what waits in the channel, every
\* event of which has its arm here (weak fairness of Arms, written out with
\* the guard the arms share as their ENABLED). A thread that sleeps wakes up
\* and sends.
NotifyFair ==
  /\ ([]<>~(pc = "recv" /\ chan # <<>>) \/ []<><<Arms>>_vars)
  /\ WF_vars(ThreadSend("Close"))

SpecNotify == InitApp /\ [][NextNotify]_vars /\ NotifyFair

\* Notification n is a child of the root of the view on screen.
Shown(n) == n \in DOMAIN views /\ views[n].kind = "Notification"
\* Every notification on screen leaves it.
NotificationsLeave == \A n \in 1..MaxIds : Shown(n) ~> ~Shown(n)

\* Each Notification::new spawns one thread, and a thread sends one
\* Close(view id) and ends; no Close comes from anywhere else.
OneCloseEach ==
  /\ act' = "RecvNotify" =>
       /\ threads'["Close"] = threads["Close"] + 1
       /\ Len(Notifications(views')) = Len(Notifications(views)) + 1
  /\ threads'["Close"] > threads["Close"] => act' = "RecvNotify"
  /\ (\/ threads'["Close"] < threads["Close"]
      \/ WaitingIn(chan', "Close") > WaitingIn(chan, "Close")) =>
       /\ threads'["Close"] = threads["Close"] - 1
       /\ chan' = Append(chan, [name |-> "Close", from |-> "timer", id |-> MessageNotif])

\* The indices of the children of the root that carry view id id.
Carrying(id) == {i \in 1..len(RootId) : View_view_id(child(RootId, i)) = id}
\* The step removes the i-th child of the root, and nothing else, and adds one
\* expose of its rectangle, waiting and in Gui mode, to the render queue.
RemovesOne(i) ==
  /\ views'[RootId].children =
       SubSeq(views[RootId].children, 1, i - 1)
         \o SubSeq(views[RootId].children, i + 1, len(RootId))
  /\ DOMAIN views' = DOMAIN views \ {child(RootId, i)}
  /\ \A v \in DOMAIN views' \ {RootId} : views'[v] = views[v]
  /\ QueueLen(rq', DOMAIN rq') = QueueLen(rq, DOMAIN rq) + 1
  /\ <<"Gui", TRUE>> \in DOMAIN rq'
  /\ rq'[<<"Gui", TRUE>>][Len(rq'[<<"Gui", TRUE>>])]
       = <<<<>>, views[child(RootId, i)].rect>>

\* C34 as stated: every Notification added to the root view is eventually
\* removed: its timer thread sends exactly one Close(view id), and the loop's
\* handling of that Close removes exactly one root child carrying that view id
\* and queues exactly one background expose (no id, waiting) of its area.
C34_EveryCloseRemovesOne ==
  /\ NotificationsLeave
  /\ [][/\ OneCloseEach
        /\ act' = "RecvClose" => \E i \in Carrying(Head(chan).id) : RemovesOne(i)]_vars

\* C34: every Notification added to the root view eventually leaves the
\* screen; its timer thread sends exactly one Close(view id); the handling of
\* a Close removes exactly one root child carrying that view id, the lowest,
\* and queues exactly one background expose of its area, when the view on
\* screen has such a child, and changes neither the tree nor the queue when
\* it has none, the notification having gone with the view that Back left.
C34_CloseRemovesOneIfShown ==
  /\ NotificationsLeave
  /\ [][/\ OneCloseEach
        /\ act' = "RecvClose" =>
             IF Carrying(Head(chan).id) # {}
             THEN \E i \in Carrying(Head(chan).id) :
                    /\ \A j \in Carrying(Head(chan).id) : i <= j
                    /\ RemovesOne(i)
             ELSE UNCHANGED <<views, rq>>]_vars

\* A Close has just removed, in a view opened after they were posted, the
\* lower of two notifications.
C34_Witness ==
  /\ act = "RecvClose"
  /\ pass.captured
  /\ history # <<>>
  /\ Notifications(views) # <<>>

\* C37: whenever the view on screen is not the Home view, the history is not
\* empty and its bottom element history[0] is the Home view, whatever open,
\* launch and back events came before; so the history[0] of the AddDocument
\* and NetUp arms never goes out of bounds.
C37_HomeAtBottomOfHistory ==
  /\ ~is_Home(views) => (history # <<>> /\ is_Home(history[1]))
  /\ pc # "panic"

\* An AddDocument or NetUp has just been given to history[0], the Home view,
\* from the second view opened over it.
C37_Witness ==
  /\ act = "RecvForHome"
  /\ ~is_Home(views)
  /\ Len(history) = MaxHistory
  /\ pass.log # <<>>

\* C38: a NetUp device event is never delivered to a view while the wifi
\* setting is false, the deferred NetUp of SetWifi(true) not being handled
\* after a later SetWifi(false); and a SetWifi with the value already set
\* spawns no thread and changes nothing.
C38_NoNetUpWhileWifiOff ==
  [][/\ (act' = "RecvForHome" /\ Head(chan).name = "NetUp" /\ pass'.log # <<>>) =>
          context.wifi
     /\ (act' = "RecvSetWifi" /\ Head(chan).enable = context.wifi) =>
          UNCHANGED <<context, threads, views, history, rq, bus>>]_vars

====
